---- MODULE Spec2Model ----
(***************************************************************************)
(* asus-numpad: the touchpad numpad daemon.                                *)
(*                                                                         *)
(* The module models                                                       *)
(*   - the geometry and the layout catalog (src/src/numpad_layout.rs),     *)
(*   - the brightness levels (src/src/touchpad_i2c.rs),                    *)
(*   - the time arithmetic (src/src/util.rs),                              *)
(*   - the gesture state machine and its event loop (src/src/main.rs).     *)
(*                                                                         *)
(* Specifications:                                                         *)
(*   Spec       the state machine fed by touchpad and numlock-LED events   *)
(*   SpecGeom   get_key applied to points of every catalog layout          *)
(*   SpecToggle Numpad::toggle_numlock applied repeatedly                  *)
(*   SpecLed    numlock-LED events handled by handle_numlock_pressed       *)
(*   SpecCycle  Brightness::cycle applied repeatedly                       *)
(*   SpecStart  initialize_numlock and the host's answer to its key press  *)
(*   SpecKeys   the key batches of DummyKeyboard                           *)
(*   SpecCalc   the calculator zone, with key and command actions          *)
(*   SpecLoop   the poll loop of process over the two event sources        *)
(*   SpecPure   apply_margins and elapsed_since on drawn inputs            *)
(*   SpecHost   hold toggles, external numlock presses and LED events      *)
(***************************************************************************)
EXTENDS Integers, Sequences, FiniteSets, TLC

VARIABLES
    layout,         \* Numpad.layout : NumpadLayout
    config,         \* Numpad.config : Config
    state,          \* Numpad.state  : TouchpadState
    grabbed,        \* whether the touchpad evdev device is grabbed (EVIOCGRAB)
    hw_brightness,  \* level last written to the touchpad over i2c ("Unset" before)
    out,            \* what the handling of the last event emitted, in order
    now,            \* the kernel clock: the timestamp the next events carry
    hw_finger,      \* the device's BTN_TOOL_FINGER value (TRUE: finger present)
    status,         \* "init" | "run" | "unwound" | "crashed" | geometry: "geom"
    gk,             \* SpecGeom: the result of the last get_key call
    hold_toggles,   \* history: touch toggles of numlock since the last finger-down
    hold_in_zone,   \* history: the tap under way began in the numlock zone and
                    \* no position reported since lay outside it
    tg              \* SpecToggle: [start, count] of the toggles applied

vars == <<layout, config, state, grabbed, hw_brightness, out, now, hw_finger,
          status, gk, hold_toggles, hold_in_zone, tg>>

(***************************************************************************)
(* Geometry: numpad_layout.rs                                              *)
(***************************************************************************)

\* An f32 margin is mant * 2^-e with a 24-bit mantissa, kept as two 12-bit
\* limbs (hi, lo) so that products stay inside TLC's 32-bit integers.
F32(hi, lo, e) == [hi |-> hi, lo |-> lo, e |-> e]

\* The f32 values nearest to the decimal literals of the layout catalog.
M_0 == F32(0, 0, 24)          \* 0.0
M_0_005 == F32(2621, 1802, 31)    \* 0.004999999888241291
M_0_025 == F32(3276, 3277, 29)    \* 0.02500000037252903
M_0_05 == F32(3276, 3277, 28)    \* 0.05000000074505806
M_0_1 == F32(3276, 3277, 27)    \* 0.10000000149011612
M_0_91 == F32(3727, 1475, 24)    \* 0.9100000262260437
M_0_95 == F32(3891, 819, 24)     \* 0.949999988079071

Limb == 2 ^ 12

\* Number of bits of n >= 0.
RECURSIVE BitLen(_)
BitLen(n) == IF n = 0 THEN 0 ELSE 1 + BitLen(n \div 2)

\* (margin * (range as f32)) as i32: the exact product rounded to the nearest
\* f32 (24 significant bits, ties to even), then truncated.  range >= 0.
F32MulTrunc(f, range) ==
    LET a0   == f.hi * range
        b0   == f.lo * range
        a    == a0 + (b0 \div Limb)
        b    == b0 % Limb
        d    == 2 ^ (f.e - 12)
        n    == a \div d            \* floor of the exact product
        rh   == a % d               \* remainder, high limb
        j    == f.e + BitLen(n) - 25 \* half an ulp is 2^j / 2^e
        up   == IF j >= 12 THEN rh >= d - 2 ^ (j - 12)
                ELSE IF j >= 0 THEN rh = d - 1 /\ b >= Limb - 2 ^ j
                ELSE FALSE
    IN  IF up THEN n + 1 ELSE n

Margins(top, bottom, left, right) ==
    [top |-> top, bottom |-> bottom, left |-> left, right |-> right]

BBox(minx, maxx, miny, maxy) ==
    [minx |-> minx, maxx |-> maxx, miny |-> miny, maxy |-> maxy]

xrange(b) == b.maxx - b.minx

yrange(b) == b.maxy - b.miny

apply_margins_from_origin(b, m) ==
    BBox(F32MulTrunc(m.left, xrange(b)),
         b.maxx - F32MulTrunc(m.right, xrange(b)),
         F32MulTrunc(m.top, yrange(b)),
         b.maxy - F32MulTrunc(m.bottom, yrange(b)))

apply_margins(b, m) ==
    BBox(b.minx + F32MulTrunc(m.left, xrange(b)),
         b.maxx - F32MulTrunc(m.right, xrange(b)),
         b.miny + F32MulTrunc(m.top, yrange(b)),
         b.maxy - F32MulTrunc(m.bottom, yrange(b)))

disjoint_dummy_at_origin(b) == BBox(b.minx, b.minx + 1, b.miny, b.miny + 1)

disjoint_dummy(b) == BBox(b.maxx + 1, b.maxx + 2, b.maxy + 1, b.maxy + 2)

Point(x, y) == [x |-> x, y |-> y]

contains(b, p) ==
    (b.minx <= p.x /\ p.x <= b.maxx) /\ (b.miny <= p.y /\ p.y <= b.maxy)

dist_sq(p, q) == (p.x - q.x) * (p.x - q.x) + (p.y - q.y) * (p.y - q.y)

\* NumpadLayout::create: the key box is the integer quotient of the hit-box
\* range by the number of columns (rows).
create(keys, numpad_bbox, numlock_bbox, calc_bbox) ==
    [keys |-> keys,
     numpad_bbox |-> numpad_bbox,
     numlock_bbox |-> numlock_bbox,
     calc_bbox |-> calc_bbox,
     key_width |-> xrange(numpad_bbox) \div Len(keys[1]),
     key_height |-> yrange(numpad_bbox) \div Len(keys)]

Rows(l) == Len(l.keys)

Cols(l) == Len(l.keys[1])

StdNumpadMargins == Margins(M_0_1, M_0_025, M_0_05, M_0_05)

StdNumlockMargins == Margins(M_0, M_0_91, M_0_95, M_0)

StdCalcMargins == Margins(M_0, M_0_91, M_0, M_0_95)

ux433fa(b) ==
    create(<< <<"KEY_KP7", "KEY_KP8", "KEY_KP9", "KEY_KPSLASH", "KEY_BACKSPACE">>,
              <<"KEY_KP4", "KEY_KP5", "KEY_KP6", "KEY_KPASTERISK", "KEY_BACKSPACE">>,
              <<"KEY_KP1", "KEY_KP2", "KEY_KP3", "KEY_KPMINUS", "KEY_KPENTER">>,
              <<"KEY_KP0", "KEY_KP0", "KEY_KPDOT", "KEY_KPPLUS", "KEY_KPENTER">> >>,
           apply_margins(b, StdNumpadMargins),
           apply_margins(b, StdNumlockMargins),
           apply_margins(b, StdCalcMargins))

m433ia(b) ==
    create(<< <<"KEY_KP7", "KEY_KP8", "KEY_KP9", "KEY_KPSLASH", "KEY_BACKSPACE">>,
              <<"KEY_KP4", "KEY_KP5", "KEY_KP6", "KEY_KPASTERISK", "KEY_BACKSPACE">>,
              <<"KEY_KP1", "KEY_KP2", "KEY_KP3", "KEY_KPMINUS", "KEY_5">>,
              <<"KEY_KP0", "KEY_KPDOT", "KEY_KPENTER", "KEY_KPPLUS", "KEY_EQUAL">> >>,
           apply_margins(b, StdNumpadMargins),
           apply_margins(b, StdNumlockMargins),
           apply_margins(b, StdCalcMargins))

ux581(b) ==
    create(<< <<"KEY_KPEQUAL", "KEY_5", "KEY_BACKSPACE", "KEY_BACKSPACE">>,
              <<"KEY_KP7", "KEY_KP8", "KEY_KP9", "KEY_KPSLASH">>,
              <<"KEY_KP4", "KEY_KP5", "KEY_KP6", "KEY_KPASTERISK">>,
              <<"KEY_KP1", "KEY_KP2", "KEY_KP3", "KEY_KPMINUS">>,
              <<"KEY_KP0", "KEY_KPDOT", "KEY_KPENTER", "KEY_KPPLUS">> >>,
           apply_margins(b, Margins(M_0_1, M_0_025, M_0_025, M_0_025)),
           apply_margins(b, StdNumlockMargins),
           apply_margins(b, StdCalcMargins))

gx701(b) ==
    create(<< <<"KEY_CALC", "KEY_KPSLASH", "KEY_KPASTERISK", "KEY_KPMINUS">>,
              <<"KEY_KP7", "KEY_KP8", "KEY_KP9", "KEY_KPPLUS">>,
              <<"KEY_KP4", "KEY_KP5", "KEY_KP6", "KEY_KPPLUS">>,
              <<"KEY_KP1", "KEY_KP2", "KEY_KP3", "KEY_KPENTER">>,
              <<"KEY_KP0", "KEY_KP0", "KEY_KPDOT", "KEY_KPENTER">> >>,
           apply_margins(b, Margins(M_0_025, M_0_025, M_0_025, M_0_025)),
           disjoint_dummy(b),
           disjoint_dummy(b))

gx531(b) ==
    create(<< <<"KEY_BACKSLASH", "KEY_KPSLASH", "KEY_KPASTERISK", "KEY_KPMINUS">>,
              <<"KEY_KP7", "KEY_KP8", "KEY_KP9", "KEY_KPPLUS">>,
              <<"KEY_KP4", "KEY_KP5", "KEY_KP6", "KEY_KPPLUS">>,
              <<"KEY_KP1", "KEY_KP2", "KEY_KP3", "KEY_KPENTER">>,
              <<"KEY_KP0", "KEY_KP0", "KEY_KPDOT", "KEY_KPENTER">> >>,
           apply_margins(b, Margins(M_0_005, M_0_005, M_0_005, M_0_005)),
           disjoint_dummy(b),
           disjoint_dummy(b))

um5302ta(b) ==
    create(<< <<"KEY_KP7", "KEY_KP8", "KEY_KP9", "KEY_KPSLASH", "KEY_BACKSPACE">>,
              <<"KEY_KP4", "KEY_KP5", "KEY_KP6", "KEY_KPASTERISK", "KEY_BACKSPACE">>,
              <<"KEY_KP1", "KEY_KP2", "KEY_KP3", "KEY_KPMINUS", "KEY_5">>,
              <<"KEY_KP0", "KEY_KPDOT", "KEY_KPENTER", "KEY_KPPLUS", "KEY_EQUAL">> >>,
           apply_margins(b, StdNumpadMargins),
           apply_margins(b, StdNumlockMargins),
           apply_margins(b, StdCalcMargins))

SupportedLayout == {"UX433FA", "M433IA", "UX581", "GX701", "GX531", "UM5302TA"}

from_supported_layout(name, b) ==
    CASE name = "UX433FA"  -> ux433fa(b)
      [] name = "M433IA"   -> m433ia(b)
      [] name = "UX581"    -> ux581(b)
      [] name = "GX701"    -> gx701(b)
      [] name = "GX531"    -> gx531(b)
      [] name = "UM5302TA" -> um5302ta(b)

needs_multikey_never(key) == FALSE

needs_multikey(key) == key = "KEY_5"

\* Only called after needs_multikey returned true.
multikeys(key) == <<"KEY_LEFTSHIFT", "KEY_5">>

in_numlock_bbox(l, p) == contains(l.numlock_bbox, p)

in_calc_bbox(l, p) == contains(l.calc_bbox, p)

\* The column and the row get_key computes for a point of the hit-box.
KeyCol(l, p) == (p.x - l.numpad_bbox.minx) \div l.key_width

KeyRow(l, p) == (p.y - l.numpad_bbox.miny) \div l.key_height

InGrid(l, row, col) == row < Rows(l) /\ col < Cols(l)

\* NumpadLayout::get_key.  The grid is read with get_unchecked: an index
\* outside the grid is undefined behaviour, tagged "UB" here and resolved by
\* the caller into the outcomes a build can produce.
get_key(l, p) ==
    IF ~contains(l.numpad_bbox, p)
    THEN [tag |-> "None"]
    ELSE LET col == KeyCol(l, p)
             row == KeyRow(l, p)
         IN  IF InGrid(l, row, col)
             THEN [tag |-> "Some", key |-> l.keys[row + 1][col + 1],
                   row |-> row, col |-> col]
             ELSE [tag |-> "UB", row |-> row, col |-> col]

(***************************************************************************)
(* Brightness: touchpad_i2c.rs                                             *)
(***************************************************************************)

Brightness == {"Zero", "Low", "Half", "Full"}

DefaultBrightness == "Full"

next_full_to_zero(b) ==
    CASE b = "Zero" -> DefaultBrightness
      [] b = "Low"  -> "Half"
      [] b = "Half" -> "Full"
      [] b = "Full" -> "Zero"

next(b) ==
    CASE b = "Zero" -> DefaultBrightness
      [] b = "Low"  -> "Half"
      [] b = "Half" -> "Full"
      [] b = "Full" -> "Low"

(***************************************************************************)
(* Time: util.rs                                                           *)
(***************************************************************************)

MICROS_PER_SEC == 1000000

TimeVal(sec, usec) == [tv_sec |-> sec, tv_usec |-> usec]

from_millis(millis) == millis * 1000

\* TimeVal::elapsed_since, in microseconds.  Requires t >= other.
elapsed_since_no_borrow(t, other) ==
    LET secs == t.tv_sec - other.tv_sec
        usec == IF t.tv_usec >= other.tv_usec
                THEN t.tv_usec - other.tv_usec
                ELSE t.tv_usec - other.tv_usec + MICROS_PER_SEC
    IN  secs * MICROS_PER_SEC + usec

elapsed_since(t, other) ==
    LET secs == IF t.tv_usec >= other.tv_usec
                THEN t.tv_sec - other.tv_sec
                ELSE t.tv_sec - other.tv_sec - 1
        usec == IF t.tv_usec >= other.tv_usec
                THEN t.tv_usec - other.tv_usec
                ELSE t.tv_usec - other.tv_usec + MICROS_PER_SEC
    IN  secs * MICROS_PER_SEC + usec

(***************************************************************************)
(* The gesture state machine: main.rs                                      *)
(***************************************************************************)

HOLD_MILLIS == 250

HOLD_DURATION == from_millis(HOLD_MILLIS)

TAP_JITTER_DIST == 10000

CALC_DRAG_DIST == 90000

FingerState == {"Lifted", "TouchStart", "Touching"}

\* CurKey
CurNone == [tag |-> "None", key |-> "-"]

CurNumlock == [tag |-> "Numlock", key |-> "-"]

CurCalc == [tag |-> "Calc", key |-> "-"]

CurNumpad(key) == [tag |-> "Numpad", key |-> key]

IsNumpad(k) == k.tag = "Numpad"

\* TouchpadState::default
DefaultState ==
    [pos |-> Point(0, 0),
     finger_state |-> "Lifted",
     numlock |-> FALSE,
     cur_key |-> CurNone,
     tap_started_at |-> TimeVal(0, 0),
     tap_start_pos |-> Point(0, 0),
     tapped_outside_numlock_bbox |-> FALSE,
     finger_dragged_too_much |-> FALSE,
     dragged_finger_lifted_at |-> TimeVal(0, 0),
     brightness |-> DefaultBrightness,
     calc_open |-> FALSE]

\* Config.  A CustomCommand is Keys(list) or Command; the stop command may be
\* absent.  CustomCommand::default is Keys([KEY_CALC]).
DefaultCommand == [kind |-> "Keys", keys |-> <<"KEY_CALC">>]

ExternalCommand == [kind |-> "Command", keys |-> <<>>]

NoCommand == [kind |-> "None", keys |-> <<>>]

Config(disable, start, stop) ==
    [disable_numlock_on_start |-> disable,
     calc_start_command |-> start,
     calc_stop_command |-> stop]

\* A Numpad while one event is handled: the TouchpadState, the devices it
\* drives, what it has emitted, and how the handler ended.
\*   err:   a Result::Err is being propagated with `?`
\*   crash: the process died (undefined behaviour took the crashing outcome)
Machine(st, g, hw) ==
    [state |-> st, grabbed |-> g, hw_brightness |-> hw, out |-> <<>>,
     err |-> FALSE, crash |-> FALSE]

\* What a handler emits.
Out(t, k, v) == [t |-> t, k |-> k, v |-> v]

KeyEv(key, value) == Out("key", key, value)

Syn == Out("syn", "SYN_REPORT", 0)

emit(m, e) == [m EXCEPT !.out = Append(@, e)]

RECURSIVE emit_keys(_, _, _)
emit_keys(m, keys, value) ==
    IF keys = <<>> THEN m
    ELSE emit_keys(emit(m, KeyEv(Head(keys), value)), Tail(keys), value)

\* DummyKeyboard (dummy_keyboard.rs).  The uinput writes are taken to succeed.
KEYDOWN == 1

KEYUP == 0

keydown(m, key) == emit(emit(m, KeyEv(key, KEYDOWN)), Syn)

keyup(m, key) == emit(emit(m, KeyEv(key, KEYUP)), Syn)

multi_keydown(m, keys) == emit(emit_keys(m, keys, KEYDOWN), Syn)

multi_keyup(m, keys) == emit(emit_keys(m, keys, KEYUP), Syn)

keypress(m, key) == keyup(keydown(m, key), key)

RECURSIVE multi_keypress_key_by_key(_, _)
multi_keypress_key_by_key(m, keys) ==
    IF keys = <<>> THEN m
    ELSE multi_keypress_key_by_key(keypress(m, Head(keys)), Tail(keys))

multi_keypress(m, keys) == multi_keyup(multi_keydown(m, keys), keys)

\* TouchpadI2C::set_brightness: the i2c write succeeds (ok) or returns Err.
set_brightness(m, level, ok) ==
    IF ok
    THEN [emit(m, Out("i2c", level, 1)) EXCEPT !.hw_brightness = level]
    ELSE [emit(m, Out("i2c", level, 0)) EXCEPT !.err = TRUE]

\* Numpad::grab / ungrab: a failed ioctl is logged (warn!) and ignored.
grab(m, ok) ==
    IF ok
    THEN [emit(m, Out("grab", "Grab", 1)) EXCEPT !.grabbed = TRUE]
    ELSE emit(emit(m, Out("grab", "Grab", 0)), Out("warn", "Failed to grab", 0))

ungrab(m, ok) ==
    IF ok
    THEN [emit(m, Out("grab", "Ungrab", 1)) EXCEPT !.grabbed = FALSE]
    ELSE emit(emit(m, Out("grab", "Ungrab", 0)), Out("warn", "Failed to ungrab", 0))

\* TouchpadState::toggle_numlock
state_toggle_numlock_sets(st) == [st EXCEPT !.numlock = TRUE]

state_toggle_numlock(st) == [st EXCEPT !.numlock = ~st.numlock]

\* Numpad::toggle_numlock.  io: the outcome of the hardware calls it makes.
toggle_numlock(m, io) ==
    LET m1 == [m EXCEPT !.state = state_toggle_numlock(m.state)]
    IN  IF m1.state.numlock
        THEN LET m2 == set_brightness(m1, m1.state.brightness, io.i2c_ok)
             IN  IF m2.err THEN m2 ELSE keypress(m2, "KEY_NUMLOCK")
        ELSE LET m2 == set_brightness(m1, "Zero", io.i2c_ok)
             IN  IF m2.err THEN m2
                 ELSE keypress(ungrab(m2, io.grab_ok), "KEY_NUMLOCK")

\* Numpad::handle_numlock_pressed
handle_numlock_pressed_toggles(m, val, io) ==
    IF val = 0
    THEN LET m1 == [m EXCEPT !.state.numlock = FALSE]
         IN  set_brightness(ungrab(m1, io.grab_ok), "Zero", io.i2c_ok)
    ELSE LET m1 == [m EXCEPT !.state.numlock = ~@]
         IN  set_brightness(m1, m1.state.brightness, io.i2c_ok)

\* Numpad::handle_numlock_pressed writing the stored level for either value
handle_numlock_pressed_keeps_light(m, val, io) ==
    IF val = 0
    THEN LET m1 == [m EXCEPT !.state.numlock = FALSE]
         IN  set_brightness(ungrab(m1, io.grab_ok), m1.state.brightness, io.i2c_ok)
    ELSE LET m1 == [m EXCEPT !.state.numlock = TRUE]
         IN  set_brightness(m1, m1.state.brightness, io.i2c_ok)

handle_numlock_pressed(m, val, io) ==
    IF val = 0
    THEN LET m1 == [m EXCEPT !.state.numlock = FALSE]
         IN  set_brightness(ungrab(m1, io.grab_ok), "Zero", io.i2c_ok)
    ELSE LET m1 == [m EXCEPT !.state.numlock = TRUE]
         IN  set_brightness(m1, m1.state.brightness, io.i2c_ok)

\* Numpad::initialize_numlock
initialize_numlock_no_press(m, cfg, init_numlock, io) ==
    IF init_numlock = -1
    THEN emit(m, Out("error", "Failed to get initial numlock state", 0))
    ELSE IF init_numlock # 0 /\ ~cfg.disable_numlock_on_start
         THEN handle_numlock_pressed(m, init_numlock, io)
         ELSE m

\* Numpad::initialize_numlock.  init_numlock: the LED value read from the
\* keyboard device, or -1 when the device has none (None).
initialize_numlock(m, cfg, init_numlock, io) ==
    IF init_numlock = -1
    THEN emit(m, Out("error", "Failed to get initial numlock state", 0))
    ELSE IF init_numlock # 0
         THEN IF cfg.disable_numlock_on_start
              THEN keypress(m, "KEY_NUMLOCK")
              ELSE handle_numlock_pressed(m, init_numlock, io)
         ELSE m

\* Numpad::start_calc: the keys are pressed, or a detached thread spawns the
\* command and waits for it.
start_calc(m, cfg) ==
    IF cfg.calc_start_command.kind = "Keys"
    THEN multi_keypress(m, cfg.calc_start_command.keys)
    ELSE emit(m, Out("spawn", "start: detached thread", 0))

\* Numpad::stop_calc with nothing done when no stop command is configured
stop_calc_without_fallback(m, cfg) ==
    CASE cfg.calc_stop_command.kind = "Keys" ->
            multi_keypress(m, cfg.calc_stop_command.keys)
      [] cfg.calc_stop_command.kind = "Command" ->
            emit(m, Out("spawn", "stop: event loop waits", 1))
      [] OTHER -> m

\* Numpad::stop_calc: the command is spawned and waited for by the caller.
stop_calc(m, cfg) ==
    CASE cfg.calc_stop_command.kind = "Keys" ->
            multi_keypress(m, cfg.calc_stop_command.keys)
      [] cfg.calc_stop_command.kind = "Command" ->
            emit(m, Out("spawn", "stop: event loop waits", 1))
      [] OTHER -> start_calc(m, cfg)

\* Numpad::on_lift, up to the reset that ends it
on_lift_actions_beyond(m, cfg) ==
    LET st == m.state
        m1 == IF st.cur_key = CurCalc
                 /\ dist_sq(st.pos, st.tap_start_pos) > CALC_DRAG_DIST
              THEN [(IF ~st.calc_open THEN start_calc(m, cfg) ELSE stop_calc(m, cfg))
                        EXCEPT !.state.calc_open = ~st.calc_open]
              ELSE m
        m2 == IF st.finger_state = "Touching" /\ IsNumpad(st.cur_key)
              THEN IF needs_multikey(st.cur_key.key)
                   THEN multi_keyup(m1, multikeys(st.cur_key.key))
                   ELSE keyup(m1, st.cur_key.key)
              ELSE m1
    IN  m2

\* Numpad::on_lift without the key-up of the current numpad key
on_lift_actions_without_keyup(m, cfg) ==
    LET st == m.state
    IN  IF st.cur_key = CurCalc
           /\ dist_sq(st.pos, st.tap_start_pos) >= CALC_DRAG_DIST
        THEN [(IF ~st.calc_open THEN start_calc(m, cfg) ELSE stop_calc(m, cfg))
                  EXCEPT !.state.calc_open = ~st.calc_open]
        ELSE m

on_lift_actions(m, cfg) ==
    LET st == m.state
        m1 == IF st.cur_key = CurCalc
                 /\ dist_sq(st.pos, st.tap_start_pos) >= CALC_DRAG_DIST
              THEN [(IF ~st.calc_open THEN start_calc(m, cfg) ELSE stop_calc(m, cfg))
                        EXCEPT !.state.calc_open = ~st.calc_open]
              ELSE m
        m2 == IF st.finger_state = "Touching" /\ IsNumpad(st.cur_key)
              THEN IF needs_multikey(st.cur_key.key)
                   THEN multi_keyup(m1, multikeys(st.cur_key.key))
                   ELSE keyup(m1, st.cur_key.key)
              ELSE m1
    IN  m2

on_lift_keeps_key(m, cfg) ==
    [on_lift_actions(m, cfg) EXCEPT !.state.finger_state = "Lifted"]

\* Numpad::on_lift
on_lift(m, cfg) ==
    [on_lift_actions(m, cfg) EXCEPT !.state.cur_key = CurNone,
                                    !.state.finger_state = "Lifted"]

\* What the out-of-grid read of get_key yields: the process dies ("crash"), or
\* the read returns whatever lies there, taken as some key code, of the grid
\* or not.
\* The key codes taken here: one outside the grid and one of the grid (its
\* last key).
UBOutcomes(l) == {"crash", "KEY_UNKNOWN", l.keys[Rows(l)][Cols(l)]}

\* Numpad::on_tap with the key looked up whether numlock is active or not
on_tap_any_numlock(m, l, time, io) ==
    LET st == m.state
        m1 == IF st.finger_state = "Lifted"
              THEN LET a == [m EXCEPT !.state.finger_state = "TouchStart",
                                      !.state.tap_started_at = time,
                                      !.state.tap_start_pos = st.pos,
                                      !.state.tapped_outside_numlock_bbox = FALSE,
                                      !.state.finger_dragged_too_much = FALSE]
                       got == get_key(l, st.pos)
                       key == IF got.tag = "UB" THEN io.ub ELSE got.key
                   IN  IF got.tag = "None"
                       THEN [a EXCEPT !.state.cur_key = CurNone]
                       ELSE IF got.tag = "UB" /\ io.ub = "crash"
                            THEN [a EXCEPT !.crash = TRUE]
                       ELSE LET b == [grab(a, io.grab_ok)
                                        EXCEPT !.state.finger_state = "Touching"]
                                c == IF needs_multikey(key)
                                     THEN multi_keydown(b, multikeys(key))
                                     ELSE keydown(b, key)
                            IN  [c EXCEPT !.state.cur_key = CurNumpad(key)]
              ELSE m
        pos == m1.state.pos
    IN  IF m1.crash THEN m1
        ELSE IF in_numlock_bbox(l, pos)
        THEN [m1 EXCEPT !.state.finger_state = "Touching",
                        !.state.cur_key = CurNumlock]
        ELSE IF in_calc_bbox(l, pos)
        THEN [m1 EXCEPT !.state.finger_state = "Touching",
                        !.state.cur_key = CurCalc,
                        !.state.tapped_outside_numlock_bbox = TRUE]
        ELSE [m1 EXCEPT !.state.tapped_outside_numlock_bbox = TRUE]

\* Numpad::on_tap.  io.ub: the outcome of an out-of-grid read, should one occur.
on_tap(m, l, time, io) ==
    LET st == m.state
        m1 == IF st.finger_state = "Lifted"
              THEN LET a == [m EXCEPT !.state.finger_state = "TouchStart",
                                      !.state.tap_started_at = time,
                                      !.state.tap_start_pos = st.pos,
                                      !.state.tapped_outside_numlock_bbox = FALSE,
                                      !.state.finger_dragged_too_much = FALSE]
                       got == get_key(l, st.pos)
                       key == IF got.tag = "UB" THEN io.ub ELSE got.key
                   IN  IF ~st.numlock THEN a
                       ELSE IF got.tag = "None"
                            THEN [a EXCEPT !.state.cur_key = CurNone]
                       ELSE IF got.tag = "UB" /\ io.ub = "crash"
                            THEN [a EXCEPT !.crash = TRUE]
                       ELSE LET b == [grab(a, io.grab_ok)
                                        EXCEPT !.state.finger_state = "Touching"]
                                c == IF needs_multikey(key)
                                     THEN multi_keydown(b, multikeys(key))
                                     ELSE keydown(b, key)
                            IN  [c EXCEPT !.state.cur_key = CurNumpad(key)]
              ELSE m
        pos == m1.state.pos
    IN  IF m1.crash THEN m1
        ELSE IF in_numlock_bbox(l, pos)
        THEN [m1 EXCEPT !.state.finger_state = "Touching",
                        !.state.cur_key = CurNumlock]
        ELSE IF in_calc_bbox(l, pos)
        THEN [m1 EXCEPT !.state.finger_state = "Touching",
                        !.state.cur_key = CurCalc,
                        !.state.tapped_outside_numlock_bbox = TRUE]
        ELSE [m1 EXCEPT !.state.tapped_outside_numlock_bbox = TRUE]

\* The touchpad events the handler tells apart; any other code ("SYN_REPORT"
\* stands for them) falls through to the drag check.
Event(code, value, time) == [code |-> code, value |-> value, time |-> time]

\* handle_touchpad_event, BTN_TOOL_FINGER 0
finger_up_always_lifts(m, cfg, e) == on_lift(m, cfg)

finger_up(m, cfg, e) ==
    IF ~m.state.finger_dragged_too_much
    THEN on_lift(m, cfg)
    ELSE [m EXCEPT !.state.dragged_finger_lifted_at = e.time]

\* The guard of on_tap in handle_touchpad_event, BTN_TOOL_FINGER 1
tap_accepted(st, time) ==
    \/ ~st.finger_dragged_too_much
    \/ elapsed_since(time, st.dragged_finger_lifted_at) >= HOLD_DURATION

finger_down(m, l, e, io) ==
    IF tap_accepted(m.state, e.time) THEN on_tap(m, l, e.time, io) ELSE m

\* The guard of the numlock toggle of a tick, without the hold duration
hold_toggles_numlock_at_once(st, l, time) ==
    /\ st.finger_state = "Touching"
    /\ ~st.tapped_outside_numlock_bbox
    /\ in_numlock_bbox(l, st.pos)

\* The guard of the numlock toggle of a tick
hold_toggles_numlock(st, l, time) ==
    /\ st.finger_state = "Touching"
    /\ ~st.tapped_outside_numlock_bbox
    /\ in_numlock_bbox(l, st.pos)
    /\ elapsed_since(time, st.tap_started_at) >= HOLD_DURATION

\* The guard of the brightness cycle of a tick
hold_cycles_brightness(st, l, time) ==
    /\ st.numlock
    /\ st.cur_key = CurCalc
    /\ in_calc_bbox(l, st.pos)
    /\ elapsed_since(time, st.tap_started_at) >= HOLD_DURATION

\* handle_touchpad_event, MSC_TIMESTAMP
tick_keeps_touching(m, l, e, io) ==
    LET st == m.state
        m1 == IF st.finger_state = "Touching" /\ ~st.tapped_outside_numlock_bbox
              THEN IF in_numlock_bbox(l, st.pos)
                   THEN IF hold_toggles_numlock(st, l, e.time)
                        THEN LET t == toggle_numlock(m, io)
                             IN  t
                        ELSE m
                   ELSE [m EXCEPT !.state.tapped_outside_numlock_bbox = TRUE]
              ELSE m
    IN  IF m1.err THEN m1
        ELSE IF hold_cycles_brightness(m1.state, l, e.time)
        THEN LET m2 == [m1 EXCEPT !.state.brightness = next(@)]
                 m3 == set_brightness(m2, m2.state.brightness, io.i2c_ok)
             IN  IF m3.err THEN m3 ELSE [m3 EXCEPT !.state.cur_key = CurNone]
        ELSE m1

tick(m, l, e, io) ==
    LET st == m.state
        m1 == IF st.finger_state = "Touching" /\ ~st.tapped_outside_numlock_bbox
              THEN IF in_numlock_bbox(l, st.pos)
                   THEN IF hold_toggles_numlock(st, l, e.time)
                        THEN LET t == toggle_numlock(m, io)
                             IN  IF t.err THEN t
                                 ELSE [t EXCEPT !.state.finger_state = "TouchStart"]
                        ELSE m
                   ELSE [m EXCEPT !.state.tapped_outside_numlock_bbox = TRUE]
              ELSE m
    IN  IF m1.err THEN m1
        ELSE IF hold_cycles_brightness(m1.state, l, e.time)
        THEN LET m2 == [m1 EXCEPT !.state.brightness = next(@)]
                 m3 == set_brightness(m2, m2.state.brightness, io.i2c_ok)
             IN  IF m3.err THEN m3 ELSE [m3 EXCEPT !.state.cur_key = CurNone]
        ELSE m1

\* The guard of the drag check that ends handle_touchpad_event
dragged_too_much_touch_start(st) ==
    /\ st.numlock
    /\ st.finger_state = "TouchStart"
    /\ st.cur_key # CurCalc
    /\ dist_sq(st.tap_start_pos, st.pos) > TAP_JITTER_DIST

dragged_too_much(st) ==
    /\ st.numlock
    /\ st.finger_state = "Touching"
    /\ st.cur_key # CurCalc
    /\ dist_sq(st.tap_start_pos, st.pos) > TAP_JITTER_DIST

drag_check_keeps_grab(m, cfg, io) ==
    IF dragged_too_much(m.state)
    THEN on_lift([m EXCEPT !.state.finger_dragged_too_much = TRUE], cfg)
    ELSE m

\* The drag check setting the flag and releasing the grab, without on_lift
drag_check_without_lift(m, cfg, io) ==
    IF dragged_too_much(m.state)
    THEN ungrab([m EXCEPT !.state.finger_dragged_too_much = TRUE], io.grab_ok)
    ELSE m

drag_check(m, cfg, io) ==
    IF dragged_too_much(m.state)
    THEN on_lift(ungrab([m EXCEPT !.state.finger_dragged_too_much = TRUE],
                        io.grab_ok), cfg)
    ELSE m

\* Numpad::handle_touchpad_event
handle_touchpad_event(m, l, cfg, e, io) ==
    LET m1 == CASE e.code = "ABS_MT_POSITION_X" -> [m EXCEPT !.state.pos.x = e.value]
                [] e.code = "ABS_MT_POSITION_Y" -> [m EXCEPT !.state.pos.y = e.value]
                [] e.code = "BTN_TOOL_FINGER" /\ e.value = 0 -> finger_up(m, cfg, e)
                [] e.code = "BTN_TOOL_FINGER" /\ e.value = 1 -> finger_down(m, l, e, io)
                [] e.code = "MSC_TIMESTAMP" -> tick(m, l, e, io)
                [] OTHER -> m
    IN  IF m1.err \/ m1.crash THEN m1 ELSE drag_check(m1, cfg, io)

(***************************************************************************)
(* The bounds of the model                                                 *)
(***************************************************************************)

\* The touch surface the device reports (get_touchpad_bbox): 0..max on each axis.
SurfaceMaxX == 3000

SurfaceMaxY == 2000

\* The kernel clock advances in steps of TimeStep microseconds, MaxTime times.
TimeStep == 125000

MaxTime == 2

Surface == BBox(0, SurfaceMaxX, 0, SurfaceMaxY)

StartTime == TimeVal(1, 800000)

MainLayout == m433ia(Surface)

\* The largest distance that is still jitter: its square is TAP_JITTER_DIST.
JitterReach == CHOOSE r \in 0..TAP_JITTER_DIST :
                   r * r <= TAP_JITTER_DIST /\ (r + 1) * (r + 1) > TAP_JITTER_DIST

\* The left edge of column 1, the left edge of the last column (the key that
\* needs the modifier in row 2) and the top edge of row 2 of the key grid.
CellX == MainLayout.numpad_bbox.minx + MainLayout.key_width

MultiX == MainLayout.numpad_bbox.minx + (Cols(MainLayout) - 1) * MainLayout.key_width

CellY == MainLayout.numpad_bbox.miny + 2 * MainLayout.key_height

\* The coordinates the touchpad reports: the calculator zone (its right edge
\* is the left edge of the numpad hit-box), two grid cells, the numlock zone
\* (its left edge is the right edge of the numpad hit-box) and a point of the
\* numlock zone just beyond the jitter distance from its left edge; the top of
\* the zones and a grid row.
XS == {MainLayout.calc_bbox.maxx, CellX, MultiX, MainLayout.numlock_bbox.minx,
       MainLayout.numlock_bbox.minx + JitterReach + 1}

YS == {MainLayout.numlock_bbox.miny, CellY}

\* The configuration serde fills in when the file names only the layout.
MainConfigs == {Config(TRUE, DefaultCommand, NoCommand)}

(***************************************************************************)
(* Spec: the event loop of Numpad::process                                 *)
(***************************************************************************)

add_micros(t, d) ==
    TimeVal(t.tv_sec + (t.tv_usec + d) \div MICROS_PER_SEC,
            (t.tv_usec + d) % MICROS_PER_SEC)

NoIO == [i2c_ok |-> TRUE, grab_ok |-> TRUE, ub |-> "-"]

IO(i2c_ok, grab_ok, ub) == [i2c_ok |-> i2c_ok, grab_ok |-> grab_ok, ub |-> ub]

\* The state a handler leaves behind.  A handler that spawned a command and
\* waits for it (stop_calc) has not returned yet: the loop is "waiting" until
\* the child exits.
Commit(m) ==
    /\ state' = m.state
    /\ grabbed' = m.grabbed
    /\ hw_brightness' = m.hw_brightness
    /\ out' = m.out
    /\ status' = IF m.crash THEN "crashed"
                 ELSE IF m.err THEN "unwound"
                 ELSE IF \E i \in DOMAIN m.out : m.out[i].t = "spawn" /\ m.out[i].v = 1
                      THEN "waiting"
                      ELSE "run"

Current == Machine(state, grabbed, hw_brightness)

Init ==
    /\ layout = MainLayout
    /\ config \in MainConfigs
    /\ state = DefaultState
    /\ grabbed = FALSE
    /\ hw_brightness = "Unset"
    /\ out = <<>>
    /\ now = StartTime
    /\ hw_finger = FALSE
    /\ status = "init"
    /\ gk = [tag |-> "None"]
    /\ hold_toggles = 0
    /\ hold_in_zone = FALSE
    /\ tg = [numlock |-> FALSE, brightness |-> DefaultBrightness, count |-> 0]

\* process: initialize_numlock()?, then the loop.
Initialize ==
    /\ status = "init"
    /\ \E init_numlock \in {-1, 0, 1}, i2c_ok \in BOOLEAN :
          Commit(initialize_numlock(Current, config, init_numlock,
                                    IO(i2c_ok, TRUE, "-")))
    /\ UNCHANGED <<layout, config, now, hw_finger, gk, hold_toggles, hold_in_zone, tg>>

Touchpad(e, io) == Commit(handle_touchpad_event(Current, layout, config, e, io))

\* The outcomes of a hardware call are told apart only where one can be made:
\* a brightness write where the handler reaches one, a grab where the device
\* is not grabbed and an ungrab where it is (the evdev library returns Ok
\* without a system call when the device is already in the state asked for).
Outcomes(called) == IF called THEN BOOLEAN ELSE {TRUE}

Held == state.numlock /\ state.finger_state = "Touching"

PositionX ==
    /\ status = "run"
    /\ \E x \in XS, grab_ok \in Outcomes(Held /\ grabbed) :
          Touchpad(Event("ABS_MT_POSITION_X", x, now), IO(TRUE, grab_ok, "-"))
    /\ hold_in_zone' = (hold_in_zone /\ in_numlock_bbox(layout, state'.pos))
    /\ UNCHANGED <<layout, config, now, hw_finger, gk, hold_toggles, tg>>

PositionY ==
    /\ status = "run"
    /\ \E y \in YS, grab_ok \in Outcomes(Held /\ grabbed) :
          Touchpad(Event("ABS_MT_POSITION_Y", y, now), IO(TRUE, grab_ok, "-"))
    /\ hold_in_zone' = (hold_in_zone /\ in_numlock_bbox(layout, state'.pos))
    /\ UNCHANGED <<layout, config, now, hw_finger, gk, hold_toggles, tg>>

\* BTN_TOOL_FINGER changes value with every event the kernel delivers for it.
FingerDown ==
    /\ status = "run"
    /\ ~hw_finger
    /\ hw_finger' = TRUE
    /\ \E grab_ok \in Outcomes(state.numlock /\ ~grabbed),
          ub \in IF get_key(layout, state.pos).tag = "UB"
                 THEN UBOutcomes(layout) ELSE {"-"} :
          Touchpad(Event("BTN_TOOL_FINGER", 1, now), IO(TRUE, grab_ok, ub))
    /\ hold_toggles' = 0
    /\ hold_in_zone' = (tap_accepted(state, now) /\ in_numlock_bbox(layout, state.pos))
    /\ UNCHANGED <<layout, config, now, gk, tg>>

FingerUp ==
    /\ status = "run"
    /\ hw_finger
    /\ hw_finger' = FALSE
    /\ Touchpad(Event("BTN_TOOL_FINGER", 0, now), NoIO)
    /\ hold_in_zone' = FALSE
    /\ UNCHANGED <<layout, config, now, gk, hold_toggles, tg>>

Tick ==
    /\ status = "run"
    /\ \E i2c_ok \in Outcomes(state.finger_state = "Touching" \/ state.cur_key = CurCalc),
          grab_ok \in Outcomes(state.finger_state = "Touching" /\ grabbed) :
          Touchpad(Event("MSC_TIMESTAMP", 0, now), IO(i2c_ok, grab_ok, "-"))
    /\ hold_toggles' = IF hold_toggles_numlock(state, layout, now)
                       THEN hold_toggles + 1 ELSE hold_toggles
    /\ UNCHANGED <<layout, config, now, hw_finger, gk, hold_in_zone, tg>>

\* Any other event of the touchpad (SYN_REPORT, BTN_TOUCH, ABS_X, ...).
OtherEvent ==
    /\ status = "run"
    /\ \E grab_ok \in Outcomes(Held /\ grabbed) :
          Touchpad(Event("SYN_REPORT", 0, now), IO(TRUE, grab_ok, "-"))
    /\ UNCHANGED <<layout, config, now, hw_finger, gk, hold_toggles, hold_in_zone, tg>>

\* An EV_LED LED_NUML event of the keyboard: handle_numlock_pressed(value)?
NumlockLed ==
    /\ status = "run"
    /\ \E val \in {0, 1}, i2c_ok \in BOOLEAN :
       \E grab_ok \in Outcomes(val = 0 /\ grabbed) :
          Commit(handle_numlock_pressed(Current, val, IO(i2c_ok, grab_ok, "-")))
    /\ UNCHANGED <<layout, config, now, hw_finger, gk, hold_toggles, hold_in_zone, tg>>

\* Time passes with no event: later events carry a later timestamp.
Advance ==
    /\ status = "run"
    /\ elapsed_since(now, StartTime) < MaxTime * TimeStep
    /\ now' = add_micros(now, TimeStep)
    /\ out' = <<>>
    /\ UNCHANGED <<layout, config, state, grabbed, hw_brightness,
                   hw_finger, status, gk, hold_toggles, hold_in_zone, tg>>

Next ==
    \/ Initialize
    \/ PositionX
    \/ PositionY
    \/ FingerDown
    \/ FingerUp
    \/ Tick
    \/ OtherEvent
    \/ NumlockLed
    \/ Advance

Spec == Init /\ [][Next]_vars

(***************************************************************************)
(* SpecGeom: get_key on the points of every catalog layout                 *)
(***************************************************************************)

\* How far the touch surfaces tried exceed SurfaceMaxX x SurfaceMaxY.
SurfaceSpread == 2

GeomSurfaces ==
    {BBox(0, SurfaceMaxX + dx, 0, SurfaceMaxY + dy) :
        dx \in 0..SurfaceSpread, dy \in 0..SurfaceSpread}

\* Around the hit-box and around every boundary between two key boxes.
GeomXS(l) ==
    LET b == l.numpad_bbox
    IN  {b.minx - 1, b.minx, b.maxx - 1, b.maxx, b.maxx + 1}
        \cup {b.minx + c * l.key_width - d : c \in 1..Cols(l), d \in {0, 1}}

GeomYS(l) ==
    LET b == l.numpad_bbox
    IN  {b.miny - 1, b.miny, b.maxy - 1, b.maxy, b.maxy + 1}
        \cup {b.miny + r * l.key_height - d : r \in 1..Rows(l), d \in {0, 1}}

InitGeom ==
    /\ layout \in {from_supported_layout(n, b) : n \in SupportedLayout, b \in GeomSurfaces}
    /\ config \in MainConfigs
    /\ state \in {[DefaultState EXCEPT !.pos = Point(x, y)] :
                     x \in GeomXS(layout), y \in GeomYS(layout)}
    /\ grabbed = FALSE
    /\ hw_brightness = "Unset"
    /\ out = <<>>
    /\ now = StartTime
    /\ hw_finger = FALSE
    /\ status = "geom"
    /\ gk = [tag |-> "Unset"]
    /\ hold_toggles = 0
    /\ hold_in_zone = FALSE
    /\ tg = [numlock |-> FALSE, brightness |-> DefaultBrightness, count |-> 0]

GetKey ==
    /\ status = "geom"
    /\ gk' = get_key(layout, state.pos)
    /\ status' = "geom_done"
    /\ UNCHANGED <<layout, config, state, grabbed, hw_brightness, out, now,
                   hw_finger, hold_toggles, hold_in_zone, tg>>

NextGeom == GetKey

SpecGeom == InitGeom /\ [][NextGeom]_vars

(***************************************************************************)
(* SpecToggle: Numpad::toggle_numlock, applied repeatedly                  *)
(***************************************************************************)

MaxToggles == 2

\* The brightness levels TouchpadState.brightness takes: the default and what
\* cycle() makes of it.
StoredBrightness == {"Low", "Half", "Full"}

InitToggle ==
    /\ layout = MainLayout
    /\ config \in MainConfigs
    /\ state \in {[DefaultState EXCEPT !.numlock = n, !.brightness = b,
                                       !.pos = Point(x, y)] :
                     n \in BOOLEAN, b \in StoredBrightness, x \in XS, y \in YS}
    /\ grabbed \in BOOLEAN
    /\ hw_brightness = IF state.numlock THEN state.brightness ELSE "Zero"
    /\ out = <<>>
    /\ now = StartTime
    /\ hw_finger = FALSE
    /\ status = "run"
    /\ gk = [tag |-> "None"]
    /\ hold_toggles = 0
    /\ hold_in_zone = FALSE
    /\ tg = [numlock |-> state.numlock, brightness |-> state.brightness, count |-> 0]

Toggle ==
    /\ status = "run"
    /\ tg.count < MaxToggles
    /\ \E i2c_ok \in BOOLEAN, grab_ok \in Outcomes(grabbed) :
          Commit(toggle_numlock(Current, IO(i2c_ok, grab_ok, "-")))
    /\ tg' = [tg EXCEPT !.count = @ + 1]
    /\ UNCHANGED <<layout, config, now, hw_finger, gk, hold_toggles, hold_in_zone>>

NextToggle == Toggle

SpecToggle == InitToggle /\ [][NextToggle]_vars

(***************************************************************************)
(* The claims                                                              *)
(***************************************************************************)

StrictlyInside(b, p) ==
    (b.minx < p.x /\ p.x < b.maxx) /\ (b.miny < p.y /\ p.y < b.maxy)

\* C4: for every catalog layout and touch surface, the row and the column
\* get_key computes for a point of the numpad hit-box (bounds included) lie
\* inside the key grid: get_key never reads outside the grid.
C4_RowColInGrid ==
    status = "geom_done" /\ contains(layout.numpad_bbox, state.pos)
        => /\ gk.tag = "Some"
           /\ InGrid(layout, KeyRow(layout, state.pos), KeyCol(layout, state.pos))

\* C5: for a point strictly inside the numpad hit-box get_key returns the grid
\* key at row floor((y - miny) / key_height), column floor((x - minx) /
\* key_width); for a point outside the hit-box it returns none.
C5_KeyAtQuotients ==
    status = "geom_done" =>
        /\ StrictlyInside(layout.numpad_bbox, state.pos) =>
              /\ gk.tag = "Some"
              /\ gk.row = (state.pos.y - layout.numpad_bbox.miny) \div layout.key_height
              /\ gk.col = (state.pos.x - layout.numpad_bbox.minx) \div layout.key_width
              /\ gk.key = layout.keys[gk.row + 1][gk.col + 1]
        /\ ~contains(layout.numpad_bbox, state.pos) => gk.tag = "None"

\* C10: toggling numlock twice in a row returns local numlock to the value it
\* started from, and no toggle changes the stored brightness level.
C10_ToggleTwice ==
    /\ tg.count % 2 = 0 => state.numlock = tg.numlock
    /\ tg.count % 2 = 1 => state.numlock # tg.numlock
    /\ state.brightness = tg.brightness

\* Two toggles were applied, and both wrote the brightness.
C10_Witness == tg.count = 2 /\ status = "run"

(***************************************************************************)
(* Claims about the state machine (Spec)                                   *)
(***************************************************************************)

KeyEvents(o) == SelectSeq(o, LAMBDA e : e.t = "key")

Emitted(o, e) == \E i \in DOMAIN o : o[i] = e

UngrabRequested(o) == \E i \in DOMAIN o : o[i].t = "grab" /\ o[i].k = "Ungrab"

HardwareFailed(o) == \E i \in DOMAIN o : o[i].t \in {"i2c", "grab"} /\ o[i].v = 0

KeyDowns(key) ==
    IF key = "KEY_5"
    THEN <<KeyEv("KEY_LEFTSHIFT", KEYDOWN), KeyEv("KEY_5", KEYDOWN)>>
    ELSE <<KeyEv(key, KEYDOWN)>>

KeyUps(key) ==
    IF key = "KEY_5"
    THEN <<KeyEv("KEY_LEFTSHIFT", KEYUP), KeyEv("KEY_5", KEYUP)>>
    ELSE <<KeyEv(key, KEYUP)>>

NumlockPress == <<KeyEv("KEY_NUMLOCK", KEYDOWN), KeyEv("KEY_NUMLOCK", KEYUP)>>

\* The step is a drag check that synthesizes a lift.
DragLift == ~state.finger_dragged_too_much /\ state'.finger_dragged_too_much

\* The step is a real finger-up that runs on_lift.
RealLift == FingerUp /\ ~state.finger_dragged_too_much

NumlockTurnsOff == state.numlock /\ ~state'.numlock

\* C1 as claimed: in every reachable state, a numpad key being current implies
\* that the finger phase is Touching and that local numlock is true.
C1_NumpadKeyImpliesNumlock ==
    IsNumpad(state.cur_key) => state.finger_state = "Touching" /\ state.numlock

\* C1 as amended: a numpad key being current implies that the finger phase
\* is Touching; numlock is true when a numpad key becomes current, and while the
\* key stays current only a numlock-LED event turns numlock off.
C1_NumpadKeyImpliesTouching ==
    [][IsNumpad(state'.cur_key) =>
          /\ state'.finger_state = "Touching"
          /\ ~state'.numlock =>
                /\ state'.cur_key = state.cur_key
                /\ state.numlock => NumlockLed]_vars

\* A numpad key is held while a numlock-LED event has turned numlock off.
C1_Witness ==
    IsNumpad(state.cur_key) /\ state.finger_state = "Touching" /\ ~state.numlock

\* C2: a failed hardware write (brightness, grab, ungrab) while the event loop
\* runs is reported and does not end the loop: the loop still runs after the
\* handler in which the write failed.
C2_WriteFailureNotFatal ==
    [][status = "run" /\ HardwareFailed(out') => status' = "run"]_vars

C6_KeyDownOnTap(accepted) ==
    /\ state.numlock
    /\ state.finger_state = "Lifted"
    /\ accepted
    /\ get_key(layout, state.pos).tag = "Some"
    /\ FingerDown
    => /\ KeyEvents(out') = KeyDowns(get_key(layout, state.pos).key)
       /\ state'.cur_key = CurNumpad(get_key(layout, state.pos).key)

\* C6, in between: while the key is held at the position of the tap, an event
\* other than the finger-up emits no key event and keeps the key.
C6_NoKeyEventWhileHeld ==
    /\ IsNumpad(state.cur_key)
    /\ state.pos = state.tap_start_pos
    /\ state'.pos = state.pos
    /\ ~FingerUp
    => /\ KeyEvents(out') = <<>>
       /\ state'.cur_key = state.cur_key

\* C6, finger-up: the finger-up of a held key emits its key-up.
C6_KeyUpOnLift ==
    IsNumpad(state.cur_key) /\ FingerUp
        => KeyEvents(out') = KeyUps(state.cur_key.key)

C7_DragEndsTap(active) ==
    /\ IsNumpad(state.cur_key)
    /\ active
    /\ dist_sq(state.tap_start_pos, state.pos) <= TAP_JITTER_DIST
    /\ dist_sq(state.tap_start_pos, state'.pos) > TAP_JITTER_DIST
    => /\ KeyEvents(out') = KeyUps(state.cur_key.key)
       /\ UngrabRequested(out')
       /\ state'.cur_key = CurNone
       /\ hw_finger'

\* C7 as claimed: while a numpad key is held, the first event after which the
\* squared distance from the tap start exceeds 10000 emits the key-up of the
\* held key and requests an ungrab within the handling of that same event.
C7_DragReleasesHeldKey == [][C7_DragEndsTap(TRUE)]_vars

\* C7 as amended: the same, while a numpad key is held and numlock is active.
C7_DragReleasesHeldKeyWhenActive == [][C7_DragEndsTap(state.numlock)]_vars

\* A drag has just released a held key while the finger is still down.
C7_Witness ==
    /\ hw_finger
    /\ state.finger_dragged_too_much
    /\ dist_sq(state.tap_start_pos, state.pos) > TAP_JITTER_DIST
    /\ Len(KeyEvents(out)) = 1
    /\ KeyEvents(out)[1].v = KEYUP
    /\ UngrabRequested(out)

\* C8, for a tap that started inside the numlock zone and has stayed inside
\* it: a tick at least 250 ms after the tap start leaves the number of toggles
\* of this hold at exactly one (the first such tick toggles, a later one does
\* not).
C8_HoldToggles(undragged) ==
    /\ hold_in_zone
    /\ undragged
    /\ elapsed_since(now, state.tap_started_at) >= HOLD_DURATION
    /\ Tick
    => hold_toggles' = 1

C9_OnePressPerToggle ==
    [][/\ hold_toggles' = hold_toggles + 1 /\ Tick => KeyEvents(out') = NumlockPress
       /\ NumlockLed => KeyEvents(out') = <<>>]_vars

(***************************************************************************)
(* SpecLed: handle_numlock_pressed on every state a LED event can find     *)
(***************************************************************************)

\* How many LED events are handled in a row.
MaxLeds == 2

\* The values an EV_LED LED_NUML event carries (an i32; the handler tells
\* zero from non-zero).
LedValues == {0, 1, 2}

\* The finger phase and current key a LED event can find.
Phases == {<<"Lifted", CurNone>>, <<"TouchStart", CurNone>>,
           <<"Touching", CurNumlock>>, <<"Touching", CurCalc>>,
           <<"Touching", CurNumpad("KEY_5")>>}

InitLed ==
    /\ layout = MainLayout
    /\ config \in MainConfigs
    /\ state \in {[DefaultState EXCEPT !.numlock = n, !.brightness = b,
                                       !.finger_state = ph[1], !.cur_key = ph[2],
                                       !.tapped_outside_numlock_bbox = o,
                                       !.finger_dragged_too_much = d] :
                     n \in BOOLEAN, b \in StoredBrightness, ph \in Phases,
                     o \in BOOLEAN, d \in BOOLEAN}
    /\ grabbed \in BOOLEAN
    /\ hw_brightness = IF state.numlock THEN state.brightness ELSE "Zero"
    /\ out = <<>>
    /\ now = StartTime
    /\ hw_finger = (state.finger_state # "Lifted")
    /\ status = "run"
    /\ gk = [tag |-> "None"]
    /\ hold_toggles = 0
    /\ hold_in_zone = FALSE
    /\ tg = [count |-> 0, val |-> 0, same |-> FALSE, prior |-> state]

\* One LED event is handled.  tg keeps the value handled, the state it found
\* and whether the event before it carried the same value.
LedEvent ==
    /\ status = "run"
    /\ tg.count < MaxLeds
    /\ \E val \in LedValues, i2c_ok \in BOOLEAN :
       \E grab_ok \in Outcomes(val = 0 /\ grabbed) :
          /\ Commit(handle_numlock_pressed(Current, val, IO(i2c_ok, grab_ok, "-")))
          /\ tg' = [count |-> tg.count + 1, val |-> val,
                    same |-> (tg.count > 0 /\ tg.val = val), prior |-> state]
    /\ UNCHANGED <<layout, config, now, hw_finger, gk, hold_toggles, hold_in_zone>>

NextLed == LedEvent

SpecLed == InitLed /\ [][NextLed]_vars

\* C11: handle_numlock_pressed(value) leaves local numlock true exactly when
\* value is non-zero, whatever it was before; it leaves the finger phase, the
\* current key and the two sticky flags as they were; and handling the same
\* value a second time leaves the state the first handling produced.
C11_LedResynchronizes ==
    tg.count > 0 =>
        /\ state.numlock = (tg.val # 0)
        /\ state.finger_state = tg.prior.finger_state
        /\ state.cur_key = tg.prior.cur_key
        /\ state.tapped_outside_numlock_bbox = tg.prior.tapped_outside_numlock_bbox
        /\ state.finger_dragged_too_much = tg.prior.finger_dragged_too_much
        /\ tg.same => state = tg.prior

\* A non-zero value was handled twice in a row while a key was held, and both
\* brightness writes succeeded.
C11_Witness ==
    /\ tg.count = 2
    /\ tg.same
    /\ tg.val # 0
    /\ state.cur_key = CurNumpad("KEY_5")
    /\ status = "run"

(***************************************************************************)
(* SpecCycle: Brightness::cycle from every level                           *)
(***************************************************************************)

\* How many times the brightness is cycled in a row.
MaxCycles == 7

\* The level cycled first is any of the four of the enum, Zero included.
InitCycle ==
    /\ layout = MainLayout
    /\ config \in MainConfigs
    /\ state \in {[DefaultState EXCEPT !.numlock = TRUE, !.brightness = b] :
                     b \in Brightness}
    /\ grabbed \in BOOLEAN
    /\ hw_brightness = state.brightness
    /\ out = <<>>
    /\ now = StartTime
    /\ hw_finger = FALSE
    /\ status = "run"
    /\ gk = [tag |-> "None"]
    /\ hold_toggles = 0
    /\ hold_in_zone = FALSE
    /\ tg = [seen |-> <<state.brightness>>]

\* set_brightness(self.state.brightness.cycle())?  as the tick of a hold in
\* the calculator zone does it.  tg.seen keeps the levels in the order taken.
Cycle ==
    /\ status = "run"
    /\ Len(tg.seen) <= MaxCycles
    /\ \E i2c_ok \in BOOLEAN :
          LET m == [Current EXCEPT !.state.brightness = next(@)]
          IN  Commit(set_brightness(m, m.state.brightness, i2c_ok))
    /\ tg' = [seen |-> Append(tg.seen, state'.brightness)]
    /\ UNCHANGED <<layout, config, now, hw_finger, gk, hold_toggles, hold_in_zone>>

NextCycle == Cycle

SpecCycle == InitCycle /\ [][NextCycle]_vars

\* C12: cycling from Zero gives the default level; cycling from any level
\* never gives Zero; cycling from Low gives Half, from Half gives Full and from
\* Full gives Low, so three cycles from a non-zero level visit all three
\* levels and return to it.
C12_CycleOrder ==
    \A i \in 1..(Len(tg.seen) - 1) :
        /\ tg.seen[i] = "Zero" => tg.seen[i + 1] = DefaultBrightness
        /\ tg.seen[i + 1] # "Zero"
        /\ tg.seen[i] = "Low" => tg.seen[i + 1] = "Half"
        /\ tg.seen[i] = "Half" => tg.seen[i + 1] = "Full"
        /\ tg.seen[i] = "Full" => tg.seen[i + 1] = "Low"
        /\ tg.seen[i] # "Zero" /\ i + 3 <= Len(tg.seen) =>
              /\ tg.seen[i + 3] = tg.seen[i]
              /\ {tg.seen[i], tg.seen[i + 1], tg.seen[i + 2]} = {"Low", "Half", "Full"}

\* The brightness was cycled from Zero through the default level and once
\* around the rotation.
C12_Witness ==
    /\ Len(tg.seen) >= 5
    /\ tg.seen[1] = "Zero"
    /\ tg.seen[5] = DefaultBrightness
    /\ status = "run"

(***************************************************************************)
(* Claims about the numlock toggle of a hold (Spec)                        *)
(***************************************************************************)

BrightnessWrites(o) == SelectSeq(o, LAMBDA e : e.t = "i2c")

GrabRequests(o) == SelectSeq(o, LAMBDA e : e.t = "grab")

\* C13: the tick that toggles numlock to on writes the stored brightness
\* level, which is not Zero, and issues neither a grab nor an ungrab; the tick
\* that toggles numlock to off writes brightness Zero and issues an ungrab
\* request.
C13_ToggleWritesAndUngrabs ==
    [][hold_toggles' = hold_toggles + 1 /\ Tick =>
          /\ Len(BrightnessWrites(out')) = 1
          /\ ~state.numlock =>
                /\ BrightnessWrites(out')[1].k = state.brightness
                /\ state.brightness # "Zero"
                /\ GrabRequests(out') = <<>>
          /\ state.numlock =>
                /\ BrightnessWrites(out')[1].k = "Zero"
                /\ UngrabRequested(out')]_vars

(***************************************************************************)
(* SpecStart: initialize_numlock and the host it presses numlock on        *)
(***************************************************************************)

\* Every setting of the configuration file, on every catalog layout.
StartConfigs ==
    {Config(d, s, t) : d \in BOOLEAN, s \in {DefaultCommand, ExternalCommand},
                       t \in {DefaultCommand, ExternalCommand, NoCommand}}

\* tg is the host: led is its numlock indicator (-1: the keyboard device
\* has none), keys counts the numlock key-presses the dummy keyboard emitted
\* that the host has not applied yet, leds holds the LED events the keyboard
\* device has queued, and handled counts the LED events handled.
InitStart ==
    /\ layout \in {from_supported_layout(n, Surface) : n \in SupportedLayout}
    /\ config \in StartConfigs
    /\ state = DefaultState
    /\ grabbed = FALSE
    /\ hw_brightness = "Unset"
    /\ out = <<>>
    /\ now = StartTime
    /\ hw_finger = FALSE
    /\ status = "init"
    /\ gk = [tag |-> "None"]
    /\ hold_toggles = 0
    /\ hold_in_zone = FALSE
    /\ tg \in {[led |-> v, keys |-> 0, leds |-> <<>>, handled |-> 0] : v \in {-1, 0, 1}}

\* process: initialize_numlock()? with the LED value the keyboard device has.
InitializeStart ==
    /\ status = "init"
    /\ \E i2c_ok \in BOOLEAN :
          Commit(initialize_numlock(Current, config, tg.led, IO(i2c_ok, TRUE, "-")))
    /\ tg' = [tg EXCEPT !.keys = Len(SelectSeq(out', LAMBDA e :
                                  e = KeyEv("KEY_NUMLOCK", KEYDOWN)))]
    /\ UNCHANGED <<layout, config, now, hw_finger, gk, hold_toggles, hold_in_zone>>

\* The host applies a numlock key-press: the indicator changes and the
\* keyboard device reports the new LED value.
HostApplies ==
    /\ tg.keys > 0
    /\ tg' = IF tg.led = -1
             THEN [tg EXCEPT !.keys = @ - 1]
             ELSE [tg EXCEPT !.keys = @ - 1, !.led = 1 - @,
                             !.leds = Append(@, 1 - tg.led)]
    /\ UNCHANGED <<layout, config, state, grabbed, hw_brightness, out, now,
                   hw_finger, status, gk, hold_toggles, hold_in_zone>>

\* process: the LED event is read and handled.
LedDelivered ==
    /\ status = "run"
    /\ tg.leds # <<>>
    /\ \E i2c_ok \in BOOLEAN, grab_ok \in Outcomes(grabbed) :
          Commit(handle_numlock_pressed(Current, Head(tg.leds),
                                        IO(i2c_ok, grab_ok, "-")))
    /\ tg' = [tg EXCEPT !.leds = Tail(@), !.handled = @ + 1]
    /\ UNCHANGED <<layout, config, now, hw_finger, gk, hold_toggles, hold_in_zone>>

NextStart ==
    \/ InitializeStart
    \/ HostApplies
    \/ LedDelivered

SpecStart == InitStart /\ [][NextStart]_vars

\* C14: for every initial indicator value and every disable_on_start setting,
\* once initialize_numlock has run, the host has applied every numlock
\* key-press emitted and every resulting LED event has been handled, local
\* numlock equals the host's indicator, and with disable_on_start both are off.
C14_StartupSkewResolved ==
    status # "init" /\ tg.led # -1 /\ tg.keys = 0 /\ tg.leds = <<>> =>
        /\ state.numlock = (tg.led = 1)
        /\ config.disable_numlock_on_start => ~state.numlock /\ tg.led = 0

\* The indicator was on at startup with disable_on_start set: the key-press
\* was applied and the LED event that followed was handled.
C14_Witness ==
    /\ config.disable_numlock_on_start
    /\ tg.handled = 1
    /\ tg.keys = 0
    /\ tg.leds = <<>>
    /\ tg.led = 0
    /\ status = "run"

(***************************************************************************)
(* SpecKeys: the multi-key events of the dummy keyboard                    *)
(***************************************************************************)

\* The longest batch of keys pressed at once.
MaxKeys == 3

\* Key codes a batch is made of.
BatchKeys == {"KEY_LEFTSHIFT", "KEY_5", "KEY_CALC", "KEY_LEFTMETA"}

RECURSIVE Batches(_)
Batches(n) ==
    IF n = 0 THEN {<<>>}
    ELSE Batches(n - 1) \cup {Append(b, k) : b \in Batches(n - 1), k \in BatchKeys}

\* tg.keys is the batch, tg.phase what has been done with it.
InitKeys ==
    /\ layout = MainLayout
    /\ config \in MainConfigs
    /\ state = DefaultState
    /\ grabbed = FALSE
    /\ hw_brightness = "Unset"
    /\ out = <<>>
    /\ now = StartTime
    /\ hw_finger = FALSE
    /\ status = "run"
    /\ gk = [tag |-> "None"]
    /\ hold_toggles = 0
    /\ hold_in_zone = FALSE
    /\ tg \in {[keys |-> b, phase |-> "idle"] : b \in Batches(MaxKeys)}

MultiKeypress ==
    /\ tg.phase = "idle"
    /\ Commit(multi_keypress(Current, tg.keys))
    /\ tg' = [tg EXCEPT !.phase = "pressed"]
    /\ UNCHANGED <<layout, config, now, hw_finger, gk, hold_toggles, hold_in_zone>>

MultiKeydown ==
    /\ tg.phase = "idle"
    /\ Commit(multi_keydown(Current, tg.keys))
    /\ tg' = [tg EXCEPT !.phase = "down"]
    /\ UNCHANGED <<layout, config, now, hw_finger, gk, hold_toggles, hold_in_zone>>

MultiKeyup ==
    /\ tg.phase = "down"
    /\ Commit(multi_keyup(Current, tg.keys))
    /\ tg' = [tg EXCEPT !.phase = "up"]
    /\ UNCHANGED <<layout, config, now, hw_finger, gk, hold_toggles, hold_in_zone>>

NextKeys ==
    \/ MultiKeypress
    \/ MultiKeydown
    \/ MultiKeyup

SpecKeys == InitKeys /\ [][NextKeys]_vars

\* The key events of value v for the batch, in its order, then one marker.
BatchThenSyn(keys, v) == [i \in 1..Len(keys) |-> KeyEv(keys[i], v)] \o <<Syn>>

\* C15: a multi-key press emits the key-down of every key of the batch, one
\* synchronization marker, the key-up of every key of the batch and one more
\* marker, in that order; a multi-key release alone emits the key-ups as one
\* batch followed by one marker, a multi-key-down alone the key-downs as one
\* batch followed by one marker.
C15_BatchesThenOneSyn ==
    /\ tg.phase = "pressed" =>
          out = BatchThenSyn(tg.keys, KEYDOWN) \o BatchThenSyn(tg.keys, KEYUP)
    /\ tg.phase = "down" => out = BatchThenSyn(tg.keys, KEYDOWN)
    /\ tg.phase = "up" => out = BatchThenSyn(tg.keys, KEYUP)

\* A batch of three keys was pressed.
C15_Witness ==
    /\ tg.phase = "pressed"
    /\ Len(tg.keys) = 3
    /\ tg.keys[1] # tg.keys[2]

(***************************************************************************)
(* SpecCalc: the calculator zone, and the layouts that have none           *)
(***************************************************************************)

\* A stop command of key-presses that differs from the start command.
StopKeys == [kind |-> "Keys", keys |-> <<"KEY_LEFTALT", "KEY_F4">>]

\* The default configuration, one with a stop command of its own, and one
\* that runs external commands.
CalcConfigs ==
    {Config(TRUE, DefaultCommand, NoCommand),
     Config(TRUE, DefaultCommand, StopKeys),
     Config(TRUE, ExternalCommand, NoCommand),
     Config(TRUE, ExternalCommand, ExternalCommand)}

\* The least distance that is a calculator drag: its square reaches
\* CALC_DRAG_DIST.
DragReach == CHOOSE r \in 0..CALC_DRAG_DIST :
                 r * r >= CALC_DRAG_DIST /\ (r - 1) * (r - 1) < CALC_DRAG_DIST

\* The coordinates the touchpad reports: the corners of the surface, and the
\* two points around the calculator drag distance from its left edge.
ZoneXS == {0, DragReach - 1, DragReach, SurfaceMaxX}

ZoneYS == {0, SurfaceMaxY}

InitCalc ==
    /\ \E lc \in ({MainLayout} \X CalcConfigs)
                  \cup ({gx701(Surface), gx531(Surface)}
                          \X {Config(TRUE, ExternalCommand, ExternalCommand)}) :
          layout = lc[1] /\ config = lc[2]
    /\ state = DefaultState
    /\ grabbed = FALSE
    /\ hw_brightness = "Unset"
    /\ out = <<>>
    /\ now = StartTime
    /\ hw_finger = FALSE
    /\ status = "init"
    /\ gk = [tag |-> "None"]
    /\ hold_toggles = 0
    /\ hold_in_zone = FALSE
    /\ tg = [numlock |-> FALSE, brightness |-> DefaultBrightness, count |-> 0]

\* An ABS_MT_POSITION_X or ABS_MT_POSITION_Y event.
MoveTo ==
    /\ status = "run"
    /\ \E e \in {Event("ABS_MT_POSITION_X", x, now) : x \in ZoneXS}
                \cup {Event("ABS_MT_POSITION_Y", y, now) : y \in ZoneYS},
          grab_ok \in Outcomes(Held /\ grabbed) :
          Touchpad(e, IO(TRUE, grab_ok, "-"))
    /\ hold_in_zone' = (hold_in_zone /\ in_numlock_bbox(layout, state'.pos))
    /\ UNCHANGED <<layout, config, now, hw_finger, gk, hold_toggles, tg>>

\* The command stop_calc waits for exits: on_lift goes on and the handler
\* returns.
ChildExits ==
    /\ status = "waiting"
    /\ status' = "run"
    /\ UNCHANGED <<layout, config, state, grabbed, hw_brightness, out, now,
                   hw_finger, gk, hold_toggles, hold_in_zone, tg>>

NextCalc ==
    \/ Initialize
    \/ MoveTo
    \/ FingerDown
    \/ FingerUp
    \/ Tick
    \/ NumlockLed
    \/ Advance
    \/ ChildExits

SpecCalc == InitCalc /\ [][NextCalc]_vars

(***************************************************************************)
(* Claims about the calculator zone (SpecCalc)                             *)
(***************************************************************************)

\* What the start action and the stop action of a configuration emit.
ExpectedStart(cfg) ==
    IF cfg.calc_start_command.kind = "Keys"
    THEN BatchThenSyn(cfg.calc_start_command.keys, KEYDOWN)
            \o BatchThenSyn(cfg.calc_start_command.keys, KEYUP)
    ELSE <<Out("spawn", "start: detached thread", 0)>>

ExpectedStop(cfg) ==
    CASE cfg.calc_stop_command.kind = "Keys" ->
            BatchThenSyn(cfg.calc_stop_command.keys, KEYDOWN)
               \o BatchThenSyn(cfg.calc_stop_command.keys, KEYUP)
      [] cfg.calc_stop_command.kind = "Command" ->
            <<Out("spawn", "stop: event loop waits", 1)>>
      [] OTHER -> ExpectedStart(cfg)

Spawns(o) == SelectSeq(o, LAMBDA e : e.t = "spawn")

\* C16: the event loop never waits for an external calculator command, be it
\* launched by the start action or by the stop action: events can be handled
\* while the command runs.
C16_LoopNeverWaitsForCommand == status # "waiting"

\* The finger-up finds the calculator zone as current key, at a squared
\* distance of at least CALC_DRAG_DIST from the tap start.
CalcDrag ==
    /\ state.cur_key = CurCalc
    /\ dist_sq(state.pos, state.tap_start_pos) >= CALC_DRAG_DIST

DummyLayouts == {gx701(Surface), gx531(Surface)}

Max(a, b) == IF a >= b THEN a ELSE b

\* Two boxes share no point: the least point of their intersection, were
\* there one, lies in neither.
NoCommonPoint(b, c) ==
    LET p == Point(Max(b.minx, c.minx), Max(b.miny, c.miny))
    IN  ~(contains(b, p) /\ contains(c, p))

\* C20: on gx701 and gx531 the numlock box and the calculator box contain no
\* point of the touch surface, and no touchpad event at a position of the
\* surface toggles numlock, cycles the brightness or issues a calculator
\* action: local numlock changes and the brightness is written only when a
\* LED event is handled, the stored brightness and the open flag never change,
\* no command is spawned and no numlock key is pressed after startup.
C20_NoZonesOnDummyLayouts ==
    /\ [](layout \in DummyLayouts =>
            /\ NoCommonPoint(layout.numlock_bbox, Surface)
            /\ NoCommonPoint(layout.calc_bbox, Surface)
            /\ \A x \in ZoneXS, y \in ZoneYS :
                  /\ ~in_numlock_bbox(layout, Point(x, y))
                  /\ ~in_calc_bbox(layout, Point(x, y)))
    /\ [][status = "run" /\ layout \in DummyLayouts =>
            /\ state'.brightness = state.brightness
            /\ state'.calc_open = state.calc_open
            /\ Spawns(out') = <<>>
            /\ ~Emitted(out', KeyEv("KEY_NUMLOCK", KEYDOWN))
            /\ (state'.numlock # state.numlock \/ BrightnessWrites(out') # <<>>)
                  => NumlockLed]_vars

\* With numlock on, on a layout without zones, a finger went down on the top
\* right corner of the surface (the numlock zone of other layouts) and has
\* rested there for the hold duration.
C20_Witness ==
    /\ layout \in DummyLayouts
    /\ state.numlock
    /\ state.calc_open = FALSE
    /\ state.tap_start_pos = Point(SurfaceMaxX, 0)
    /\ state.pos = Point(SurfaceMaxX, 0)
    /\ hw_finger
    /\ elapsed_since(now, state.tap_started_at) >= HOLD_DURATION
    /\ status = "run"

(***************************************************************************)
(* Claims about the finger-up after a drag (Spec)                          *)
(***************************************************************************)

\* C18 as claimed: the synthesized lift of a drag records its timestamp, and
\* the real finger-up that follows less than the hold duration after that
\* timestamp runs no lift handling (no key-up, no calculator action).
C18_SuppressedSinceSynthesizedLift ==
    [][/\ DragLift => state'.dragged_finger_lifted_at = now
       /\ state.finger_dragged_too_much
          /\ elapsed_since(now, state.dragged_finger_lifted_at) < HOLD_DURATION
          /\ FingerUp
             => out' = <<>> /\ state'.calc_open = state.calc_open]_vars

\* C18 as amended: the synthesized lift records no timestamp; the real
\* finger-up that follows it is suppressed whenever it comes (it emits nothing
\* and changes nothing but dragged_finger_lifted_at, which takes the time of
\* that finger-up); the hold duration is compared at the next finger-down,
\* against the time of that finger-up: earlier than 250 ms after it the
\* finger-down is ignored, from 250 ms on it starts a tap and clears the flag.
C18_SuppressedUntilNextTap ==
    [][/\ DragLift =>
             state'.dragged_finger_lifted_at = state.dragged_finger_lifted_at
       /\ state.finger_dragged_too_much /\ FingerUp =>
             /\ out' = <<>>
             /\ state' = [state EXCEPT !.dragged_finger_lifted_at = now]
       /\ state.finger_dragged_too_much /\ FingerDown =>
             IF elapsed_since(now, state.dragged_finger_lifted_at) < HOLD_DURATION
             THEN state' = state /\ out' = <<>>
             ELSE /\ ~state'.finger_dragged_too_much
                  /\ state'.tap_started_at = now]_vars

\* The finger-up of a dragged tap was suppressed, the hold duration after the
\* tap began.
C18_Witness ==
    /\ state.finger_dragged_too_much
    /\ ~hw_finger
    /\ state.dragged_finger_lifted_at = now
    /\ elapsed_since(now, state.tap_started_at) >= HOLD_DURATION
    /\ status = "run"

(***************************************************************************)
(* SpecLoop: the poll loop of Numpad::process over its two sources         *)
(***************************************************************************)

\* How many events each source delivers.
MaxEvents == 2

\* The events the sources deliver: of the touchpad, a tick and two positions;
\* of the keyboard, the numlock LED going off or on and a key event.
TouchpadEvents ==
    {Event("MSC_TIMESTAMP", 0, StartTime)}
    \cup {Event("ABS_MT_POSITION_X", x, StartTime) :
             x \in {MainLayout.calc_bbox.maxx, MainLayout.numlock_bbox.minx}}

KeyboardEvents ==
    {Event("LED_NUML", v, StartTime) : v \in {0, 1}}
    \cup {Event("KEY_A", 1, StartTime)}

\* Device::next_event(ReadFlag::NORMAL) on a device opened O_NONBLOCK: the
\* oldest event the device holds; with none, Err (EAGAIN).
next_event_newest(q) ==
    IF q = <<>> THEN [ok |-> FALSE, ev |-> <<>>, rest |-> q]
    ELSE [ok |-> TRUE, ev |-> q[Len(q)], rest |-> SubSeq(q, 1, Len(q) - 1)]

next_event(q) ==
    IF q = <<>> THEN [ok |-> FALSE, ev |-> <<>>, rest |-> q]
    ELSE [ok |-> TRUE, ev |-> Head(q), rest |-> Tail(q)]

\* tg is the loop and its sources.  tp, kb: the events each device holds,
\* numbered in the order received; sent: how many each has received; revents:
\* the POLLIN bits of the last poll; pc: where the loop is; log_tp, log_kb:
\* the numbers of the events handled, in the order handled; batch: how many
\* events were handled since the last poll returned.
InitLoop ==
    /\ layout = MainLayout
    /\ config \in MainConfigs
    /\ state = DefaultState
    /\ grabbed = FALSE
    /\ hw_brightness = "Unset"
    /\ out = <<>>
    /\ now = StartTime
    /\ hw_finger = FALSE
    /\ status = "run"
    /\ gk = [tag |-> "None"]
    /\ hold_toggles = 0
    /\ hold_in_zone = FALSE
    /\ tg = [tp |-> <<>>, kb |-> <<>>, sent |-> [tp |-> 0, kb |-> 0],
             revents |-> [tp |-> FALSE, kb |-> FALSE], pc |-> "poll",
             log_tp |-> <<>>, log_kb |-> <<>>, batch |-> 0]

\* The kernel queues an event on one of the devices, whatever the loop does.
Arrive ==
    /\ \/ /\ tg.sent.tp < MaxEvents
          /\ \E e \in TouchpadEvents :
                tg' = [tg EXCEPT !.tp = Append(@, [n |-> tg.sent.tp + 1, e |-> e]),
                                 !.sent.tp = @ + 1]
       \/ /\ tg.sent.kb < MaxEvents
          /\ \E e \in KeyboardEvents :
                tg' = [tg EXCEPT !.kb = Append(@, [n |-> tg.sent.kb + 1, e |-> e]),
                                 !.sent.kb = @ + 1]
    /\ UNCHANGED <<layout, config, state, grabbed, hw_brightness, out, now,
                   hw_finger, status, gk, hold_toggles, hold_in_zone>>

\* libc::poll(fds, 2, -1) returns 1 or 2: it waits until a device holds an
\* event and sets the POLLIN bit of every device that does.
Poll ==
    /\ status = "run"
    /\ tg.pc = "poll"
    /\ tg.tp # <<>> \/ tg.kb # <<>>
    /\ tg' = [tg EXCEPT !.revents = [tp |-> tg.tp # <<>>, kb |-> tg.kb # <<>>],
                        !.pc = "touchpad", !.batch = 0]
    /\ UNCHANGED <<layout, config, state, grabbed, hw_brightness, out, now,
                   hw_finger, status, gk, hold_toggles, hold_in_zone>>

\* libc::poll returns -1 (interrupted or failed; revents are left as they
\* were): the match reaches unreachable_unchecked(), which is undefined
\* behaviour.  The process dies, or goes on in one of the two branches.  The
\* step is marked in out.
PollFails ==
    /\ status = "run"
    /\ tg.pc = "poll"
    /\ \E ub \in {"crash", "branch 0", "branch 1 | 2"} :
          /\ status' = IF ub = "crash" THEN "crashed" ELSE status
          /\ tg' = IF ub = "branch 1 | 2"
                   THEN [tg EXCEPT !.pc = "touchpad", !.batch = 0]
                   ELSE tg
    /\ out' = <<Out("ub", "unreachable_unchecked", 0)>>
    /\ UNCHANGED <<layout, config, state, grabbed, hw_brightness, now,
                   hw_finger, gk, hold_toggles, hold_in_zone>>

\* while let Ok((_, ev)) = self.evdev.next_event(..) { handle_touchpad_event(ev)? }
ReadTouchpad ==
    /\ status = "run"
    /\ tg.pc = "touchpad"
    /\ tg.revents.tp
    /\ LET r == next_event(tg.tp)
       IN  /\ r.ok
           /\ \E i2c_ok \in Outcomes(state.finger_state = "Touching"),
                 grab_ok \in Outcomes(Held /\ grabbed) :
                 Touchpad(r.ev.e, IO(i2c_ok, grab_ok, "-"))
           /\ tg' = [tg EXCEPT !.tp = r.rest, !.log_tp = Append(@, r.ev.n),
                               !.batch = @ + 1]
    /\ UNCHANGED <<layout, config, now, hw_finger, gk, hold_toggles, hold_in_zone>>

\* The touchpad was not ready, or next_event returned Err: on to the keyboard.
TouchpadDrained ==
    /\ status = "run"
    /\ tg.pc = "touchpad"
    /\ ~tg.revents.tp \/ ~next_event(tg.tp).ok
    /\ tg' = [tg EXCEPT !.pc = "keyboard"]
    /\ UNCHANGED <<layout, config, state, grabbed, hw_brightness, out, now,
                   hw_finger, status, gk, hold_toggles, hold_in_zone>>

\* while let Ok((_, ev)) = self.keyboard_evdev.next_event(..): a LED_NUML
\* event goes to handle_numlock_pressed(ev.value)?, any other is only traced.
ReadKeyboard ==
    /\ status = "run"
    /\ tg.pc = "keyboard"
    /\ tg.revents.kb
    /\ LET r == next_event(tg.kb)
       IN  /\ r.ok
           /\ IF r.ev.e.code = "LED_NUML"
              THEN \E i2c_ok \in BOOLEAN :
                   \E grab_ok \in Outcomes(r.ev.e.value = 0 /\ grabbed) :
                      Commit(handle_numlock_pressed(Current, r.ev.e.value,
                                                    IO(i2c_ok, grab_ok, "-")))
              ELSE Commit(Current)
           /\ tg' = [tg EXCEPT !.kb = r.rest, !.log_kb = Append(@, r.ev.n),
                               !.batch = @ + 1]
    /\ UNCHANGED <<layout, config, now, hw_finger, gk, hold_toggles, hold_in_zone>>

\* The keyboard was not ready, or next_event returned Err: back to poll.
KeyboardDrained ==
    /\ status = "run"
    /\ tg.pc = "keyboard"
    /\ ~tg.revents.kb \/ ~next_event(tg.kb).ok
    /\ tg' = [tg EXCEPT !.pc = "poll"]
    /\ UNCHANGED <<layout, config, state, grabbed, hw_brightness, out, now,
                   hw_finger, status, gk, hold_toggles, hold_in_zone>>

NextLoop ==
    \/ Arrive
    \/ Poll
    \/ PollFails
    \/ ReadTouchpad
    \/ TouchpadDrained
    \/ ReadKeyboard
    \/ KeyboardDrained

SpecLoop == InitLoop /\ [][NextLoop]_vars

\* The numbers of the events a device holds, in order.
Pending(q) == [i \in 1..Len(q) |-> q[i].n]

\* C19: for each source, the events handled are the first ones received, in
\* the order received, each once, and the events not yet handled are still
\* held by the source (none is dropped); and the loop leaves a source that
\* signalled readiness, to go on to the next source or to wait again, only
\* when that source holds no more event.
C19_EventsHandledInOrder ==
    /\ [](/\ tg.log_tp \o Pending(tg.tp) = [i \in 1..tg.sent.tp |-> i]
          /\ tg.log_kb \o Pending(tg.kb) = [i \in 1..tg.sent.kb |-> i])
    /\ [][/\ tg.pc = "touchpad" /\ tg'.pc = "keyboard" /\ tg.revents.tp
                => tg.tp = <<>>
          /\ tg.pc = "keyboard" /\ tg'.pc = "poll" /\ tg.revents.kb
                => tg.kb = <<>>]_vars

\* One return of poll was followed by the handling of two touchpad events and
\* two keyboard events, and the loop went back to poll.
C19_Witness ==
    /\ tg.pc = "poll"
    /\ tg.batch >= 4
    /\ Len(tg.log_tp) >= 2
    /\ Len(tg.log_kb) >= 2
    /\ status = "run"

(***************************************************************************)
(* SpecPure: BBox::apply_margins and TimeVal::elapsed_since on their       *)
(* inputs                                                                  *)
(***************************************************************************)

\* The largest tv_sec of the timestamps tried.
MaxSec == 101

\* tg is the input, gk the result.  The boxes tried are the surface, boxes
\* off the origin, boxes with negative bounds and boxes of no width or height;
\* the timestamps have tv_usec at both ends of its range and around a borrow,
\* and t1 <= t2 in the order of TimeVal (by tv_sec, then by tv_usec).
InitPure ==
    LET BoxXS == {-SurfaceMaxX, -1, 0, 1, SurfaceMaxX}
        BoxYS == {-SurfaceMaxY, 0, 1, SurfaceMaxY}
        Boxes == {b \in {BBox(x1, x2, y1, y2) : x1 \in BoxXS, x2 \in BoxXS,
                                                y1 \in BoxYS, y2 \in BoxYS} :
                    b.minx <= b.maxx /\ b.miny <= b.maxy}
        TimeVals == {TimeVal(sec, usec) : sec \in {0, 1, MaxSec - 1, MaxSec},
                                          usec \in {0, 100, 200, MICROS_PER_SEC - 1}}
        TimeLeq(t1, t2) ==
            t1.tv_sec < t2.tv_sec
                \/ (t1.tv_sec = t2.tv_sec /\ t1.tv_usec <= t2.tv_usec)
    IN  /\ layout = MainLayout
        /\ config \in MainConfigs
        /\ state = DefaultState
        /\ grabbed = FALSE
        /\ hw_brightness = "Unset"
        /\ out = <<>>
        /\ now = StartTime
        /\ hw_finger = FALSE
        /\ status = "pure"
        /\ gk = [tag |-> "Unset"]
        /\ hold_toggles = 0
        /\ hold_in_zone = FALSE
        /\ tg \in {[kind |-> "box", box |-> b] : b \in Boxes}
                  \cup {p \in {[kind |-> "time", t1 |-> t1, t2 |-> t2] :
                                  t1 \in TimeVals, t2 \in TimeVals} :
                           TimeLeq(p.t1, p.t2)}

ApplyNoMargins ==
    /\ status = "pure"
    /\ tg.kind = "box"
    /\ gk' = [tag |-> "box", box |-> apply_margins(tg.box, Margins(M_0, M_0, M_0, M_0))]
    /\ status' = "pure_done"
    /\ UNCHANGED <<layout, config, state, grabbed, hw_brightness, out, now,
                   hw_finger, hold_toggles, hold_in_zone, tg>>

ElapsedSince ==
    /\ status = "pure"
    /\ tg.kind = "time"
    /\ gk' = [tag |-> "micros", micros |-> elapsed_since(tg.t2, tg.t1)]
    /\ status' = "pure_done"
    /\ UNCHANGED <<layout, config, state, grabbed, hw_brightness, out, now,
                   hw_finger, hold_toggles, hold_in_zone, tg>>

NextPure ==
    \/ ApplyNoMargins
    \/ ElapsedSince

SpecPure == InitPure /\ [][NextPure]_vars

\* C21: apply_margins with margins (0, 0, 0, 0) returns a box with the four
\* bounds of the box it was applied to.
C21_ZeroMarginsKeepBox == gk.tag = "box" => gk.box = tg.box

\* Zero margins were applied to a box off the origin, with negative bounds.
C21_Witness ==
    /\ gk.tag = "box"
    /\ tg.box.minx < 0
    /\ tg.box.maxx > 0
    /\ tg.box.miny > 0

\* C22: for timestamps t1 <= t2, t2.elapsed_since(t1) is (t2.sec - t1.sec) *
\* 1000000 + (t2.usec - t1.usec) microseconds, also when t2.usec < t1.usec.
C22_ElapsedMicros ==
    gk.tag = "micros" =>
        /\ gk.micros = (tg.t2.tv_sec - tg.t1.tv_sec) * 1000000
                          + (tg.t2.tv_usec - tg.t1.tv_usec)
        /\ gk.micros >= 0

\* The elapsed time was taken over a borrowed second.
C22_Witness ==
    /\ gk.tag = "micros"
    /\ tg.t2.tv_usec < tg.t1.tv_usec
    /\ gk.micros = 999900

(***************************************************************************)
(* Claims about a tap: on_tap, the hold of a tick, the drag check (Spec)   *)
(***************************************************************************)

\* A finger-down for which handle_touchpad_event calls on_tap with the phase
\* Lifted.
TapStarts == state.finger_state = "Lifted" /\ tap_accepted(state, now) /\ FingerDown

\* C23: handling a finger-down while the phase is Lifted records the tap start
\* time and position and clears the drag flag, and classifies the position:
\* in the numlock zone the phase is Touching, the current key Numlock and the
\* left-numlock-zone flag unset; in the calculator zone the phase is Touching,
\* the current key Calc and the flag set; anywhere else the flag is set and,
\* when numlock is active and a cell of the key grid is hit, the phase is
\* Touching, the current key that cell's key, with the key-down of that key
\* (one batch) and one grab request; otherwise the phase is TouchStart and the
\* current key None.
C23_TapClassified ==
    [][TapStarts =>
          LET p == state.pos
              got == get_key(layout, p)
          IN  /\ state'.tap_started_at = now
              /\ state'.tap_start_pos = p
              /\ ~state'.finger_dragged_too_much
              /\ IF in_numlock_bbox(layout, p)
                 THEN /\ state'.finger_state = "Touching"
                      /\ state'.cur_key = CurNumlock
                      /\ ~state'.tapped_outside_numlock_bbox
                 ELSE IF in_calc_bbox(layout, p)
                 THEN /\ state'.finger_state = "Touching"
                      /\ state'.cur_key = CurCalc
                      /\ state'.tapped_outside_numlock_bbox
                 ELSE /\ state'.tapped_outside_numlock_bbox
                      /\ IF state.numlock /\ got.tag = "Some"
                         THEN /\ state'.finger_state = "Touching"
                              /\ state'.cur_key = CurNumpad(got.key)
                              /\ KeyEvents(out') = KeyDowns(got.key)
                              /\ Len(GrabRequests(out')) = 1
                              /\ GrabRequests(out')[1].k = "Grab"
                         ELSE /\ state'.finger_state = "TouchStart"
                              /\ state'.cur_key = CurNone
                              /\ KeyEvents(out') = <<>>
                              /\ GrabRequests(out') = <<>>]_vars

\* The step handles an event of the touchpad.
TouchpadStep == PositionX \/ PositionY \/ FingerDown \/ FingerUp \/ Tick \/ OtherEvent

\* A tick can toggle numlock only in the phase Touching with the
\* left-numlock-zone flag unset.
Armed(st) == st.finger_state = "Touching" /\ ~st.tapped_outside_numlock_bbox

\* C24: the handling of a touchpad event changes local numlock only when the
\* event is a tick, the position is inside the numlock zone, the
\* left-numlock-zone flag is unset and at least 250 ms have elapsed since the
\* tap start.  A finger-up leaves the phase Lifted, a tick that finds the
\* position outside the zone leaves the phase other than Touching or the flag
\* set, and from then on the phase stays other than Touching or the flag set
\* until a finger-down starts a new tap: a tap lifted before 250 ms never
\* toggles numlock, and neither does the rest of a tap after a tick has
\* observed the finger outside the zone, even when the finger returns.
C24_TouchToggleOnlyOnHeldTick ==
    [][/\ state.numlock # state'.numlock /\ TouchpadStep =>
              /\ Tick
              /\ in_numlock_bbox(layout, state.pos)
              /\ Armed(state)
              /\ elapsed_since(now, state.tap_started_at) >= HOLD_DURATION
       /\ hw_finger /\ ~hw_finger' => state'.finger_state = "Lifted"
       /\ ~in_numlock_bbox(layout, state.pos) /\ Tick => ~Armed(state')
       /\ ~Armed(state) /\ ~(tap_accepted(state, now) /\ FingerDown) => ~Armed(state')]_vars

\* The tap began in the numlock zone, a tick found the finger outside it, the
\* finger is back in the zone 250 ms after the tap start, and numlock has not
\* been toggled.
C24_Witness ==
    /\ hw_finger
    /\ state.cur_key = CurNumlock
    /\ state.finger_state = "Touching"
    /\ state.tapped_outside_numlock_bbox
    /\ in_numlock_bbox(layout, state.pos)
    /\ elapsed_since(now, state.tap_started_at) >= HOLD_DURATION
    /\ hold_toggles = 0

\* C26: a synthesized lift (the drag flag rises) is performed in the handling
\* of a touchpad event exactly when, after the event, numlock is active, the
\* phase is Touching, the current key is not the calculator zone and the
\* squared distance of the position from the tap start exceeds
\* TAP_JITTER_DIST; it sets the drag flag and requests an ungrab.  A handled
\* event never leaves these four conditions standing, and a lift is performed
\* only with numlock active, beyond the distance, from the phase Touching and
\* with a current key that is not the calculator zone (or was it until the
\* tick of this very event cycled the brightness and cleared it).
C26_SynthesizedLiftExactlyWhen ==
    [][/\ DragLift =>
              /\ state'.numlock
              /\ state.finger_state = "Touching"
              /\ state.cur_key = CurCalc => state'.brightness # state.brightness
              /\ dist_sq(state'.tap_start_pos, state'.pos) > TAP_JITTER_DIST
              /\ UngrabRequested(out')
              /\ state'.finger_state = "Lifted"
       /\ ~(/\ state'.numlock
            /\ state'.finger_state = "Touching"
            /\ state'.cur_key # CurCalc
            /\ dist_sq(state'.tap_start_pos, state'.pos) > TAP_JITTER_DIST
            /\ TouchpadStep)]_vars

\* The emulated numpad key of the current tap is down: on_tap emitted its
\* key-down and no lift has emitted its key-up yet.
KeyDown(st) == st.finger_state = "Touching" /\ IsNumpad(st.cur_key)

\* The key presses that are complete within one handler: KEY_NUMLOCK of a
\* toggle or of the start, KEY_CALC of the calculator action.
Presses == {<<>>, NumlockPress,
            <<KeyEv("KEY_CALC", KEYDOWN), KeyEv("KEY_CALC", KEYUP)>>}

\* C29: with finger-down and finger-up events alternating, key-downs and
\* key-ups of numpad keys alternate.  No key is down at the start; the key
\* events of a step are the key-down of a grid key when no key was down
\* before it (the key is then the current key), the key-up of the key that
\* was down (no key is down after it), or complete presses of other keys
\* while the key state stays as it was; and after the handling of a
\* finger-up no key is down.
C29_KeyDownsAndUpsAlternate ==
    /\ [](status = "init" => ~KeyDown(state))
    /\ [][/\ ~KeyDown(state) /\ KeyDown(state')
             => KeyEvents(out') = KeyDowns(state'.cur_key.key)
          /\ KeyDown(state) /\ ~KeyDown(state')
             => KeyEvents(out') = KeyUps(state.cur_key.key)
          /\ KeyDown(state) /\ KeyDown(state')
             => state'.cur_key = state.cur_key /\ KeyEvents(out') = <<>>
          /\ ~KeyDown(state) /\ ~KeyDown(state') => KeyEvents(out') \in Presses
          /\ hw_finger /\ ~hw_finger' => ~KeyDown(state')]_vars

\* A real finger-up has released the percent key (left shift and 5), although
\* numlock was switched off while the key was down.
C29_Witness ==
    /\ ~hw_finger
    /\ ~state.numlock
    /\ state.finger_state = "Lifted"
    /\ ~state.finger_dragged_too_much
    /\ KeyEvents(out) = KeyUps("KEY_5")

\* The handler asked for the device grab, or sent a key down other than
\* within the presses of KEY_NUMLOCK and KEY_CALC.
GrabOrNumpadKeyDown(o) ==
    \E i \in DOMAIN o :
        \/ o[i].t = "grab" /\ o[i].k = "Grab"
        \/ o[i].t = "key" /\ o[i].v = KEYDOWN /\ o[i].k \notin {"KEY_NUMLOCK", "KEY_CALC"}

\* C30: a numpad key-down is emitted and a device grab is requested only in
\* the handling of a finger-down that finds numlock active: while local
\* numlock is off, no step emits a numpad key-down or requests a grab.
C30_NoKeyDownOrGrabWithNumlockOff ==
    [][GrabOrNumpadKeyDown(out') => state.numlock /\ FingerDown]_vars

\* A finger-down on a cell of the key grid with numlock off: the tap has
\* started, nothing was emitted and the device is not grabbed.
C30_Witness ==
    /\ ~state.numlock
    /\ hw_finger
    /\ state.finger_state = "TouchStart"
    /\ state.tap_start_pos = state.pos
    /\ get_key(layout, state.pos).tag = "Some"
    /\ out = <<>>
    /\ ~grabbed

\* A brightness write of the last handler failed.  The loop ends with that
\* handler, so the record of it stays in out.
WriteFailed(o) == \E i \in DOMAIN o : o[i].t = "i2c" /\ o[i].v = 0

\* C32: as long as no brightness write has failed, once a level has been
\* written to the hardware, the level last written is Zero when local
\* numlock is off and the stored level when local numlock is on.
C32_HardwareLevelFollowsNumlock ==
    hw_brightness # "Unset" /\ ~WriteFailed(out) =>
        hw_brightness = IF state.numlock THEN state.brightness ELSE "Zero"

\* Numlock is on and a hold of the calculator zone has cycled the brightness:
\* the hardware has the new stored level.
C32_Witness ==
    /\ state.numlock
    /\ state.brightness # DefaultBrightness
    /\ hw_brightness = state.brightness
    /\ status = "run"

\* The step issues no action: nothing is emitted, and local numlock, the
\* stored and the hardware brightness, the open flag and the grab stay.
NoAction ==
    /\ out' = <<>>
    /\ state'.numlock = state.numlock
    /\ state'.brightness = state.brightness
    /\ state'.calc_open = state.calc_open
    /\ hw_brightness' = hw_brightness
    /\ grabbed' = grabbed

\* C33 as claimed: the phase Lifted implies that the current key is None, the
\* drag flag implies the phase Lifted, and from a synthesized lift until a
\* finger-down is accepted no step of any event issues a key, numlock,
\* brightness or calculator action.
C33_NoActionAfterSynthesizedLift ==
    /\ [](state.finger_state = "Lifted" => state.cur_key = CurNone)
    /\ [](state.finger_dragged_too_much => state.finger_state = "Lifted")
    /\ [][state.finger_dragged_too_much /\ ~(tap_accepted(state, now) /\ FingerDown)
             => NoAction /\ state'.finger_dragged_too_much]_vars

\* C33 as amended: the two implications hold in every state, and from a
\* synthesized lift until a finger-down is accepted no touchpad event issues
\* an action or performs another synthesized lift: the drag flag stays set
\* and nothing is emitted.  A numlock-LED event in between is handled as
\* ever.
C33_NoTouchActionAfterSynthesizedLift ==
    /\ [](state.finger_state = "Lifted" => state.cur_key = CurNone)
    /\ [](state.finger_dragged_too_much => state.finger_state = "Lifted")
    /\ [][/\ state.finger_dragged_too_much
          /\ ~(tap_accepted(state, now) /\ FingerDown)
          /\ TouchpadStep
          => NoAction /\ state'.finger_dragged_too_much]_vars

\* After a synthesized lift the finger rests in the numlock zone with numlock
\* active, the hold duration after the tap start: no tick has toggled.
C33_Witness ==
    /\ state.finger_dragged_too_much
    /\ hw_finger
    /\ state.numlock
    /\ in_numlock_bbox(layout, state.pos)
    /\ elapsed_since(now, state.tap_started_at) >= HOLD_DURATION
    /\ status = "run"

\* The real finger-up of the dragged tap has been handled: the time recorded
\* for it is not before the start of that tap.  (Until then the time recorded
\* is that of an earlier drag, at least the hold duration before the tap
\* started, or the initial zero.)
DraggedTapEnded(st) ==
    /\ st.finger_dragged_too_much
    /\ \/ st.dragged_finger_lifted_at.tv_sec > st.tap_started_at.tv_sec
       \/ /\ st.dragged_finger_lifted_at.tv_sec = st.tap_started_at.tv_sec
          /\ st.dragged_finger_lifted_at.tv_usec >= st.tap_started_at.tv_usec

\* C34: after a synthesized lift, the real finger-up that ends the dragged
\* tap records its time as the start of the suppression window; the
\* finger-up of a tap ignored afterwards leaves that time as it is (ignored
\* taps do not extend the window); and a finger-down at least 250 ms after
\* that time is accepted as a new tap: the drag flag is cleared, the tap
\* starts now and, with numlock active and a cell of the grid hit, the
\* key-down of the cell's key is emitted.
C34_RearmedByTimeAlone ==
    [][/\ state.finger_dragged_too_much /\ ~DraggedTapEnded(state) /\ FingerUp
          => state'.dragged_finger_lifted_at = now
       /\ DraggedTapEnded(state) /\ FingerUp
          => state'.dragged_finger_lifted_at = state.dragged_finger_lifted_at
       /\ /\ DraggedTapEnded(state)
          /\ elapsed_since(now, state.dragged_finger_lifted_at) >= HOLD_DURATION
          /\ FingerDown
          => /\ ~state'.finger_dragged_too_much
             /\ state'.tap_started_at = now
             /\ state.numlock /\ get_key(layout, state.pos).tag = "Some"
                => KeyEvents(out') = KeyDowns(get_key(layout, state.pos).key)]_vars

(***************************************************************************)
(* Claims about the hold of the calculator zone (SpecCalc)                 *)
(***************************************************************************)

\* C25: with numlock active and the calculator zone as current key, a tick at
\* least 250 ms after the tap start cycles the brightness once (one write, of
\* the level after the stored one, which becomes the stored level) and clears
\* the current key; the current key then stays None until a finger-down
\* starts a new tap, a tick with a current key other than the calculator zone
\* leaves the stored level alone, and a finger-up with current key None
\* issues nothing and leaves the open flag alone, whatever the distance from
\* the tap start.
C25_HeldCalcTapCyclesOnce ==
    [][/\ /\ state.numlock
          /\ state.cur_key = CurCalc
          /\ elapsed_since(now, state.tap_started_at) >= HOLD_DURATION
          /\ Tick
          => /\ BrightnessWrites(out') = <<Out("i2c", next(state.brightness), 1)>>
             /\ state'.brightness = next(state.brightness)
             /\ state'.cur_key = CurNone
       /\ state.cur_key = CurNone /\ ~(tap_accepted(state, now) /\ FingerDown)
          => state'.cur_key = CurNone
       /\ state.cur_key # CurCalc /\ Tick => state'.brightness = state.brightness
       /\ state.cur_key = CurNone /\ FingerUp
          => out' = <<>> /\ state'.calc_open = state.calc_open]_vars

\* C28: when no stop command is configured, every real finger-up with the
\* calculator zone as current key and a squared distance of at least
\* CALC_DRAG_DIST from the tap start issues the configured start action,
\* whether the open flag is clear (open) or set (close): the key batch of the
\* start command, or the spawn of its command in a detached thread; when no
\* start command is configured either, the action is the press of the single
\* key KEY_CALC (down, SYN, up, SYN).
C28_CloseRerunsStart ==
    [][config.calc_stop_command = NoCommand /\ CalcDrag /\ RealLift =>
          /\ out' = IF config.calc_start_command.kind = "Keys"
                    THEN BatchThenSyn(config.calc_start_command.keys, KEYDOWN)
                            \o BatchThenSyn(config.calc_start_command.keys, KEYUP)
                    ELSE <<Out("spawn", "start: detached thread", 0)>>
          /\ config.calc_start_command = DefaultCommand =>
                out' = <<KeyEv("KEY_CALC", KEYDOWN), Syn, KeyEv("KEY_CALC", KEYUP), Syn>>
          /\ status' = "run"]_vars

\* With no stop command configured, the close action (it cleared the open
\* flag) has just issued the start action: the press of KEY_CALC, or the
\* spawn of the start command.
C28_Witness ==
    /\ config.calc_stop_command = NoCommand
    /\ ~state.calc_open
    /\ ~hw_finger
    /\ \/ out = <<KeyEv("KEY_CALC", KEYDOWN), Syn, KeyEv("KEY_CALC", KEYUP), Syn>>
       \/ out = <<Out("spawn", "start: detached thread", 0)>>

(***************************************************************************)
(* Claims about the wait of the event loop (SpecLoop)                      *)
(***************************************************************************)

\* C27: whatever libc::poll returns, failed and interrupted waits included,
\* the match in the loop of process takes a defined branch: the branch marked
\* unreachable is never taken.
C27_UnreachableNeverTaken == ~Emitted(out, Out("ub", "unreachable_unchecked", 0))

(***************************************************************************)
(* SpecHost: hold toggles, external numlock presses and LED events         *)
(***************************************************************************)

\* The number of numlock presses, emulated or external, in a behaviour.
MaxPresses == 3

\* tg is the host, as in SpecStart, with count the presses made so far.  The
\* loop is running and the startup is settled: local numlock is the indicator.
InitHost ==
    /\ layout = MainLayout
    /\ config \in MainConfigs
    /\ state \in {[DefaultState EXCEPT !.numlock = n] : n \in BOOLEAN}
    /\ grabbed \in BOOLEAN
    /\ hw_brightness = IF state.numlock THEN state.brightness ELSE "Zero"
    /\ out = <<>>
    /\ now = StartTime
    /\ hw_finger = FALSE
    /\ status = "run"
    /\ gk = [tag |-> "None"]
    /\ hold_toggles = 0
    /\ hold_in_zone = FALSE
    /\ tg = [led |-> IF state.numlock THEN 1 ELSE 0, keys |-> 0, leds |-> <<>>,
             handled |-> 0, count |-> 0]

\* The tick of a hold in the numlock zone: toggle_numlock()?.  The numlock
\* key-press it emits is the host's to apply.
HoldToggle ==
    /\ status = "run"
    /\ tg.count < MaxPresses
    /\ \E i2c_ok \in BOOLEAN, grab_ok \in Outcomes(grabbed) :
          Commit(toggle_numlock(Current, IO(i2c_ok, grab_ok, "-")))
    /\ tg' = [tg EXCEPT !.count = @ + 1,
                        !.keys = @ + Len(SelectSeq(out', LAMBDA e :
                                         e = KeyEv("KEY_NUMLOCK", KEYDOWN)))]
    /\ UNCHANGED <<layout, config, now, hw_finger, gk, hold_toggles, hold_in_zone>>

\* The numlock key of a real keyboard is pressed: the host changes the
\* indicator and the keyboard device reports the new LED value.
ExternalPress ==
    /\ tg.count < MaxPresses
    /\ tg' = [tg EXCEPT !.count = @ + 1, !.led = 1 - @,
                        !.leds = Append(@, 1 - tg.led)]
    /\ UNCHANGED <<layout, config, state, grabbed, hw_brightness, out, now,
                   hw_finger, status, gk, hold_toggles, hold_in_zone>>

NextHost ==
    \/ HoldToggle
    \/ ExternalPress
    \/ HostApplies
    \/ LedDelivered

SpecHost == InitHost /\ [][NextHost]_vars

\* C31: with a host that changes its numlock indicator on every numlock
\* key-press, emulated or external, and reports every change as an LED
\* event, whenever every emitted key-press has been applied and every LED
\* event has been handled, local numlock equals the indicator.
C31_LocalNumlockIsIndicator ==
    tg.keys = 0 /\ tg.leds = <<>> => state.numlock = (tg.led = 1)

=============================================================================
